---- MODULE Spec2Model ----
(***************************************************************************)
(* Model of the roster-to-earnings pipeline of the Pilot Salary Calculator *)
(* (services.py, models.py, config.py, main.py).                           *)
(*                                                                         *)
(* Units.  Floats of the program are modelled as exact scaled integers:    *)
(*   distances in tenths of a nautical mile, sectors in tenths of a        *)
(*   sector, the per-sector rate and bonus amounts in euro cents, earnings *)
(*   in thousandths of a euro (tenths of a sector times cents), times in   *)
(*   minutes.                                                              *)
(***************************************************************************)
EXTENDS Integers, Sequences, FiniteSets, TLC

VARIABLES
    \* ---- AirportService ----
    svc,                \* "off", "up", or "crashed" (__init__ raised IOError)
    coordinates,        \* AirportService.coordinates: code -> <<lat, lon>>
    csv,                \* the file at csv_path
    lastLookup,         \* outcome of the last direct get_coordinates call
    raisedCode,         \* iata_code of the MissingAirportError being handled
    added,              \* history: code -> <<lat, lon>> handed to add_airport
    persisted0,         \* history: what the file resolved at the last start-up
    attempts,           \* history: calculate_salary calls of the current loop
    \* ---- calculate_salary / _process_roster_data / _calculate_earnings ----
    dailySchedule,      \* data['dailySchedule'] handed to calculate_salary
    sector_value,       \* per-sector rate, cents
    sector_threshold,   \* contract threshold, tenths of a sector
    pc,                 \* position inside _calculate_salary / calculate_salary
    dayIdx,             \* index of the day the day loop is at
    schedule_list,      \* rows collected so far (local of _process_roster_data)
    rowIdx,             \* index of the row the earnings loop is at
    operational_sectors_prev, \* running counter of _calculate_earnings
    guadagno,           \* the column 'Guadagno' filled so far
    \* ---- _calculate_ido_bonuses ----
    ido_value,          \* IDO unit value of the position, cents
    idoIdx,             \* index i of the pair (day[i], day[i+1]) the scan is at
    bonuses,            \* the list of BonusInfo built so far
    \* ---- the other day-pair scans ----
    home_base,          \* profile.home_base
    scanIdx,            \* index i of the pair the running scan is at
    night_stop_bonus,   \* bonus of _calculate_night_stop_bonus, cents
    extra_days,         \* extra_days of _find_extra_diaria_days
    midnight_days,      \* midnight_days of _count_midnight_standby_days
    midnight_standby_dates, \* the set built by _count_midnight_standby_days
    \* ---- PilotProfile ----
    payment_month,      \* profile.payment_month, 0 when the attribute is not set
    position,           \* profile.position
    extra_position,     \* profile.extra_position
    contract_type,      \* profile.contract_type
    snc_units,          \* profile.snc_units
    \* ---- _calculate_salary_components ----
    salary_calc,        \* the SalaryCalculation returned, NoSalary before
    \* ---- _assign_sector_value ----
    arg_distance,       \* the argument distance, hundredths of a NM
    ret_sectors,        \* the value returned, tenths of a sector
    \* ---- RosterParser.parse_roster_text ----
    content,            \* text_content, a sequence of characters
    parse_lines,        \* lines
    parse_idx,          \* index of the line the loop is at
    current_day_lines,  \* current_day_lines
    parsed_days,        \* data["dailySchedule"] built so far
    parse_result,       \* what parse_roster_text returned or raised
    \* ---- utils.calculate_tax ----
    tax_total,          \* the argument total, 1/100000 EUR
    tax_brackets,       \* the argument brackets
    tax_result          \* the value returned, 1/100000 EUR

airVars == <<svc, coordinates, csv, lastLookup, raisedCode, added, persisted0,
             attempts>>

earnVars == <<dailySchedule, sector_value, sector_threshold, pc, dayIdx,
              schedule_list, rowIdx, operational_sectors_prev, guadagno>>

idoVars == <<ido_value, idoIdx, bonuses>>

profileVars == <<home_base, payment_month, position, extra_position,
                 contract_type, snc_units>>

scanVars == <<scanIdx, night_stop_bonus, extra_days, midnight_days,
              midnight_standby_dates>>

salaryVars == <<salary_calc>>

sectorVars == <<arg_distance, ret_sectors>>

parseVars == <<content, parse_lines, parse_idx, current_day_lines,
               parsed_days, parse_result>>

taxVars == <<tax_total, tax_brackets, tax_result>>

laterVars == <<profileVars, scanVars, salaryVars, sectorVars, parseVars,
               taxVars>>

vars == <<airVars, earnVars, idoVars, laterVars>>

(***************************************************************************)
(* Bounds and input sets                                                   *)
(***************************************************************************)
MaxDays == 3

\* SalaryConfig.OVERTIME_SECTOR_MULTIPLIER
OVERTIME_SECTOR_MULTIPLIER == 2

\* SalaryConfig.NIGHT_STOP_BONUS_MULTIPLIER
NIGHT_STOP_BONUS_MULTIPLIER == 2

\* SalaryConfig.POSITIONS[...][4] (ido_value) of FO and SFO, in cents
FOIdoValue == 37500
SFOIdoValue == 46900

\* SalaryConfig.POSITIONS[...][2] (sector_value) of FO and CPT, in cents
FOSectorValue == 2148
CPTSectorValue == 3583

\* Thresholds handed to _calculate_earnings, tenths of a sector.  350 is
\* CONTRACTS['Standard']; the two small ones let short rosters reach, hit
\* exactly and cross the threshold.
EarnThresholds == {16, 25, 350}

\* Coordinates are in 1/10000 of a degree (the default file has four
\* decimals).  Airports of the test directory: code -> <<lat, lon>>, all on
\* one meridian, so that the great-circle formula reduces to
\* R * |lat1 - lat2| (in radians).
TestCoordinates ==
    [c \in {"MXP", "FCO", "ATH", "LPA", "SSH"} |->
        CASE c = "MXP" -> <<460000, 90000>>
          [] c = "FCO" -> <<420000, 90000>>
          [] c = "ATH" -> <<360000, 90000>>
          [] c = "LPA" -> <<280000, 90000>>
          [] c = "SSH" -> <<160000, 90000>>]

\* the coordinates _create_default_csv writes
DefaultMXP == <<456306, 87281>>
DefaultFCO == <<418003, 122389>>

(***************************************************************************)
(* DistanceCalculator.calculate_distance, in tenths of a NM rounded down.  *)
(* For two points of one meridian arg = sin a sin b + cos a cos b cos 0    *)
(* = cos(a - b), so the result is 3440 * |a - b| * pi / 180                *)
(* = 60.0393 * |a - b| NM; it is computed per whole degree and remainder   *)
(* to stay within 32-bit integers.  For MXP and FCO of the default file    *)
(* the formula evaluates to 275.79 NM.  The model's inputs hold no other   *)
(* pair of points on different meridians.                                  *)
(***************************************************************************)
Abs(x) == IF x < 0 THEN -x ELSE x

GreatCircle(dep_coords, arr_coords) ==
    IF {dep_coords, arr_coords} = {DefaultMXP, DefaultFCO} THEN 2757
    ELSE LET delta == Abs(dep_coords[1] - arr_coords[1])
             q == delta \div 10000
             r == delta % 10000
         IN  q * 600 + (q * 393) \div 1000 + (r * 6004) \div 100000

\* SalaryConfig.SECTOR_VALUES: <<min, max, value>>, distances in tenths of a
\* NM, value in tenths of a sector; -1 stands for float('inf').
SECTOR_VALUES == << <<0, 4000, 8>>, <<4000, 10000, 12>>,
                    <<10000, 15000, 15>>, <<15000, -1, 25>> >>

\* SalaryCalculatorService._assign_sector_value
\* the distance is in units of 1/per_nm NM (the day loop hands over tenths)
RECURSIVE BandLookup(_, _, _)
BandLookup(distance, per_nm, i) ==
    IF i > Len(SECTOR_VALUES) THEN 0
    ELSE LET b == SECTOR_VALUES[i] IN
         IF b[1] * per_nm < distance * 10
            /\ (b[2] = -1 \/ distance * 10 <= b[2] * per_nm)
         THEN b[3]
         ELSE BandLookup(distance, per_nm, i + 1)

\* mutant: the guard for distances under 0.1 NM is left out
_assign_sector_value_NoTiny(distance, per_nm) ==
    IF distance <= 0 THEN 0
    ELSE BandLookup(distance, per_nm, 1)

_assign_sector_value(distance, per_nm) ==
    IF distance <= 0 THEN 0
    ELSE IF distance * 10 < per_nm THEN 0
    ELSE BandLookup(distance, per_nm, 1)


(***************************************************************************)
(* Text.  Every text the program inspects (startswith, in, lower, split,   *)
(* f-strings) is a sequence of one-character strings.  Airport codes are   *)
(* only compared for equality and stay plain strings.                      *)
(***************************************************************************)
s_Flight == <<"F", "l", "i", "g", "h", "t">>
s_Positioning == <<"P", "o", "s", "i", "t", "i", "o", "n", "i", "n", "g">>
s_TAXI_unpaid == <<"T", "A", "X", "I", " ", "(", "u", "n", "p", "a", "i", "d", ")">>
s_TAXI == <<"T", "A", "X", "I">>
s_Training == <<"T", "r", "a", "i", "n", "i", "n", "g">>
s_Airport_Duty == <<"A", "i", "r", "p", "o", "r", "t", " ", "D", "u", "t", "y">>
s_Standby == <<"S", "t", "a", "n", "d", "b", "y">>
s_Day_Off == <<"D", "a", "y", " ", "O", "f", "f">>
s_Leave == <<"L", "e", "a", "v", "e">>
s_Rest_Day == <<"R", "e", "s", "t", " ", "D", "a", "y">>
s_SIM == <<"S", "I", "M">>
s_Simulator == <<"S", "i", "m", "u", "l", "a", "t", "o", "r">>
s_Ground_School == <<"G", "r", "o", "u", "n", "d", " ", "S", "c", "h", "o", "o", "l">>
s_Pre_Line == <<"P", "r", "e", " ", "L", "i", "n", "e", " ", "t", "r", "a", "i", "n", "i", "n", "g", " ", "g", "r", "o", "u", "n", "d", " ", "I", "n", "s", "t", "r", "u", "c", "t", "o", "r">>
s_MXP_Standby == <<"M", "X", "P", " ", "S", "t", "a", "n", "d", "b", "y">>
s_Guaranteed_Day_Off == <<"G", "u", "a", "r", "a", "n", "t", "e", "e", "d", " ", "D", "a", "y", " ", "O", "f", "f">>
s_Annual_leave == <<"A", "n", "n", "u", "a", "l", " ", "l", "e", "a", "v", "e">>
s_GS == <<"G", "/", "S">>
s_dashes == <<"-", "-", "-">>
s_NA == <<"N", "/", "A">>
s_EJU2551 == <<"E", "J", "U", "2", "5", "5", "1">>
s_TAXI71 == <<"T", "A", "X", "I", "7", "1">>
s_Training_open == <<"T", "r", "a", "i", "n", "i", "n", "g", " ", "(">>
s_open == <<" ", "(">>
s_close == <<")">>
k_instructor == <<"i", "n", "s", "t", "r", "u", "c", "t", "o", "r">>
k_luca_fusari == <<"l", "u", "c", "a", " ", "f", "u", "s", "a", "r", "i">>
k_instr == <<"i", "n", "s", "t", "r">>
k_teaching == <<"t", "e", "a", "c", "h", "i", "n", "g">>
k_trainee == <<"t", "r", "a", "i", "n", "e", "e">>
k_support == <<"s", "u", "p", "p", "o", "r", "t">>
k_student == <<"s", "t", "u", "d", "e", "n", "t">>
k_training == <<"t", "r", "a", "i", "n", "i", "n", "g">>
UpperCase == <<"A", "B", "C", "D", "E", "F", "G", "H", "I", "J", "K", "L", "M", "N", "O", "P", "Q", "R", "S", "T", "U", "V", "W", "X", "Y", "Z">>
LowerCase == <<"a", "b", "c", "d", "e", "f", "g", "h", "i", "j", "k", "l", "m", "n", "o", "p", "q", "r", "s", "t", "u", "v", "w", "x", "y", "z">>

\* str.startswith
StartsWith(s, prefix) ==
    Len(s) >= Len(prefix) /\ SubSeq(s, 1, Len(prefix)) = prefix

\* the operator 'needle in haystack' on str
Contains(haystack, needle) ==
    \E i \in 1..(Len(haystack) - Len(needle) + 1) :
        SubSeq(haystack, i, i + Len(needle) - 1) = needle

\* str.lower
LowerChar(c) ==
    IF \E i \in 1..26 : UpperCase[i] = c
    THEN LowerCase[CHOOSE i \in 1..26 : UpperCase[i] = c]
    ELSE c

Lower(s) == [i \in 1..Len(s) |-> LowerChar(s[i])]

\* dict.get(key, default)
Get(d, key, default) == IF key \in DOMAIN d THEN d[key] ELSE default

\* mutant: the error does not carry the code that was looked up
get_coordinates_NoCode(directory, iata_code) ==
    IF iata_code \notin DOMAIN directory
    THEN [raised |-> "???", value |-> <<>>]
    ELSE [raised |-> "", value |-> directory[iata_code]]

\* AirportService.get_coordinates: raised is the iata_code of the
\* MissingAirportError, "" when the code resolves
get_coordinates(directory, iata_code) ==
    IF iata_code \notin DOMAIN directory
    THEN [raised |-> iata_code, value |-> <<>>]
    ELSE [raised |-> "", value |-> directory[iata_code]]

\* the code a distance calculation reports missing, "" when both codes
\* resolve (departure is looked up first)
MissingCode(departure, arrival, directory) ==
    IF get_coordinates(directory, departure).raised # ""
    THEN get_coordinates(directory, departure).raised
    ELSE get_coordinates(directory, arrival).raised

\* DistanceCalculator.calculate_distance once both look-ups succeeded
calculate_distance(departure, arrival, directory) ==
    GreatCircle(get_coordinates(directory, departure).value,
                get_coordinates(directory, arrival).value)

\* training facilities, not real airports
training_facilities == {"XWT", "XDH"}

\* SalaryCalculatorService._calculate_airport_duty_sectors, tenths of a
\* sector; airport_duty_hours in minutes
_calculate_airport_duty_sectors(duty) ==
    LET duty_hours == Get(duty, "airport_duty_hours", 240)
        was_called == Get(duty, "was_called", FALSE)
        base_sectors == IF duty_hours <= 240 THEN 1 ELSE 2
    IN  10 * (IF was_called THEN base_sectors + 1 ELSE base_sectors)

\* mutant: the trainee keywords are looked for before the instructor keywords
_calculate_sim_sectors_TraineeFirst(duty) ==
    LET description == Lower(Get(duty, "description", <<>>)) IN
    IF \E k \in {k_trainee, k_support, k_student, k_training} :
           Contains(description, k)
    THEN 0
    ELSE 40

\* SalaryCalculatorService._calculate_sim_sectors, tenths of a sector
_calculate_sim_sectors(duty) ==
    LET description == Lower(Get(duty, "description", <<>>)) IN
    IF \E k \in {k_instructor, k_luca_fusari, k_instr, k_teaching} :
           Contains(description, k)
    THEN 40
    ELSE IF \E k \in {k_trainee, k_support, k_student, k_training} :
           Contains(description, k)
    THEN 0
    ELSE 40

(***************************************************************************)
(* _process_roster_data, body of the day loop.                             *)
(* A row of schedule_list.  Keys a branch of the source leaves out become  *)
(* NaN in the DataFrame; the earnings loop reads such a flag only behind   *)
(* `Settori > 0`, which no row with a NaN flag satisfies, so they are      *)
(* modelled as FALSE.                                                      *)
(***************************************************************************)
\* mutant: a TAXI leg keeps its nominal sectors
LegSettori_Nominal(is_taxi, sectors) == sectors

\* Settori of a leg row: TAXI legs earn 0 sectors
LegSettori(is_taxi, sectors) == IF is_taxi THEN 0 ELSE sectors

\* the row appended for one leg (both airports resolve, no training facility)
LegRow(day, leg, directory) ==
    LET origin == leg.origin
        destination == leg.destination
        distance == calculate_distance(origin, destination, directory)
        sectors == _assign_sector_value(distance, 10)
        is_positioning == Get(leg, "isPositioning", FALSE)
        is_taxi == StartsWith(Get(leg, "flightNumber", <<>>), s_TAXI)
    IN  [Data |-> day.date,
         Attivita |-> IF is_taxi THEN s_TAXI_unpaid
                      ELSE IF is_positioning THEN s_Positioning ELSE s_Flight,
         Volo |-> Get(leg, "flightNumber", s_NA),
         Partenza |-> origin,
         Arrivo |-> destination,
         Distanza |-> distance,
         Settori |-> LegSettori(is_taxi, sectors),
         IsPositioning |-> is_positioning,
         IsTAXI |-> is_taxi,
         IsAirportDuty |-> FALSE,
         IsTraining |-> FALSE]

\* the leg loop of a Flight day from leg i on: the rows appended and the code
\* of the MissingAirportError that ends it ("" when it runs to the end)
RECURSIVE LegRows(_, _, _, _)
LegRows(day, legs, i, directory) ==
    IF i > Len(legs) THEN [raised |-> "", rows |-> <<>>]
    ELSE LET leg == legs[i] IN
         IF leg.origin \in training_facilities
            \/ leg.destination \in training_facilities
         THEN LegRows(day, legs, i + 1, directory)
         ELSE LET missing == MissingCode(leg.origin, leg.destination, directory) IN
              IF missing # "" THEN [raised |-> missing, rows |-> <<>>]
              ELSE LET rest == LegRows(day, legs, i + 1, directory) IN
                   [raised |-> rest.raised,
                    rows |-> <<LegRow(day, leg, directory)>> \o rest.rows]

\* the rows for the additional training duties of a Flight day
TrainingDutyRows(day, tds) ==
    [j \in 1..Len(tds) |->
        [Data |-> day.date,
         Attivita |-> s_Training_open \o tds[j].description \o s_close,
         Volo |-> tds[j].type,
         Partenza |-> "---",
         Arrivo |-> "---",
         Distanza |-> 0,
         Settori |-> tds[j].sectors,
         IsPositioning |-> FALSE,
         IsTAXI |-> FALSE,
         IsAirportDuty |-> FALSE,
         IsTraining |-> TRUE]]

\* sectors of a non-flight day
NonFlightSectors(duty) ==
    LET activity_type == Get(duty, "type", s_NA)
        description == Get(duty, "description", <<>>)
    IN  IF activity_type = s_Airport_Duty
        THEN _calculate_airport_duty_sectors(duty)
        ELSE IF activity_type = s_Training
        THEN IF Contains(description, s_SIM) \/ Contains(description, s_Simulator)
             THEN _calculate_sim_sectors(duty)
             ELSE IF Contains(description, s_Ground_School)
                     \/ Contains(description, s_Pre_Line)
             THEN 40
             ELSE 0
        ELSE 0

\* the row appended for a non-flight day
NonFlightRow(day) ==
    LET duty == day.duty
        activity_type == Get(duty, "type", s_NA)
    IN  [Data |-> day.date,
         Attivita |-> activity_type \o s_open \o Get(duty, "description", <<>>)
                      \o s_close,
         Volo |-> s_dashes,
         Partenza |-> "---",
         Arrivo |-> "---",
         Distanza |-> 0,
         Settori |-> NonFlightSectors(duty),
         IsPositioning |-> FALSE,
         IsTAXI |-> FALSE,
         IsAirportDuty |-> activity_type = s_Airport_Duty,
         IsTraining |-> activity_type = s_Training]

\* one iteration of the day loop (the day passed the month filter)
DayRows(day, directory) ==
    IF Get(day.duty, "type", s_NA) = s_Flight
    THEN LET lr == LegRows(day, Get(day.duty, "legs", <<>>), 1, directory) IN
         IF lr.raised # "" THEN lr
         ELSE [raised |-> "",
               rows |-> lr.rows \o
                        TrainingDutyRows(day, Get(day.duty, "training_duties", <<>>))]
    ELSE [raised |-> "", rows |-> <<NonFlightRow(day)>>]



(***************************************************************************)
(* AirportService: the coordinate file.                                    *)
(* The file is its header line (column names) and its data lines, each a   *)
(* sequence of `;`-separated fields.  A code field is a plain string, a    *)
(* number field is its text.                                               *)
(***************************************************************************)
Digits == <<"0", "1", "2", "3", "4", "5", "6", "7", "8", "9">>

DigitChar(d) == Digits[d + 1]

DigitVal(c) == (CHOOSE i \in 1..10 : Digits[i] = c) - 1

RECURSIVE NatToStr(_)
NatToStr(n) ==
    IF n < 10 THEN <<DigitChar(n)>>
    ELSE NatToStr(n \div 10) \o <<DigitChar(n % 10)>>

RECURSIVE StrToNat(_)
StrToNat(s) ==
    IF s = <<>> THEN 0
    ELSE StrToNat(SubSeq(s, 1, Len(s) - 1)) * 10 + DigitVal(s[Len(s)])

RECURSIVE StripZeros(_)
StripZeros(s) ==
    IF Len(s) > 1 /\ s[Len(s)] = "0" THEN StripZeros(SubSeq(s, 1, Len(s) - 1))
    ELSE s

\* str(x) of a float x given in 1/10000: shortest decimal text, at least one
\* fractional digit
float_str(x) ==
    LET a == Abs(x)
        fp == a % 10000
        frac == <<DigitChar(fp \div 1000), DigitChar((fp \div 100) % 10),
                  DigitChar((fp \div 10) % 10), DigitChar(fp % 10)>>
    IN  (IF x < 0 THEN <<"-">> ELSE <<>>) \o NatToStr(a \div 10000) \o <<".">>
        \o StripZeros(frac)

\* str.replace for one character
Replace(s, old, new) == [i \in 1..Len(s) |-> IF s[i] = old THEN new ELSE s[i]]

\* ten to the power n
RECURSIVE Pow10(_)
Pow10(n) == IF n = 0 THEN 1 ELSE 10 * Pow10(n - 1)

\* pandas' conversion of a number field read with decimal=',' , in 1/10000
read_decimal(field) ==
    LET neg == field # <<>> /\ field[1] = "-"
        u == IF neg THEN SubSeq(field, 2, Len(field)) ELSE field
        commas == {i \in 1..Len(u) : u[i] = ","}
        c == IF commas = {} THEN Len(u) + 1
             ELSE CHOOSE i \in commas : \A j \in commas : i <= j
        int_part == SubSeq(u, 1, c - 1)
        frac == SubSeq(u, c + 1, Len(u))
        v == StrToNat(int_part) * 10000 + StrToNat(frac) * Pow10(4 - Len(frac))
    IN  IF neg THEN -v ELSE v

\* no file at csv_path
NoFile == [exists |-> FALSE, header |-> <<>>, lines |-> <<>>]

\* the file _create_default_csv writes
DefaultCsv ==
    [exists |-> TRUE,
     header |-> <<"IATA", "Lat", "Long">>,
     lines |-> << <<"MXP", <<"4", "5", ",", "6", "3", "0", "6">>, <<"8", ",", "7", "2", "8", "1">>>>,
                  <<"FCO", <<"4", "1", ",", "8", "0", "0", "3">>, <<"1", "2", ",", "2", "3", "8", "9">>>>,
                  <<"BGY", <<"4", "5", ",", "6", "7", "3", "9">>, <<"9", ",", "7", "0", "4", "2">>>>,
                  <<"LIN", <<"4", "5", ",", "4", "4", "5", "0">>, <<"9", ",", "2", "8", "0", "8">>>> >>]

\* _create_default_csv
_create_default_csv(file) == DefaultCsv

\* mutant: the appended line follows the header of the default file
_save_to_csv_ThreeFields(file, iata, lat, lon) ==
    [file EXCEPT !.lines = Append(@,
        <<iata, Replace(float_str(lat), ".", ","),
          Replace(float_str(lon), ".", ",")>>)]

\* AirportService._save_to_csv: appends the line ;iata;iata;lat;lon
_save_to_csv(file, iata, lat, lon) ==
    LET lat_str == Replace(float_str(lat), ".", ",")
        lon_str == Replace(float_str(lon), ".", ",")
    IN  [file EXCEPT !.lines = Append(@, <<"", iata, iata, lat_str, lon_str>>)]

\* pd.read_csv(sep=';'): the first data line sets the table width and a later
\* line with more fields is a tokenizing error ("Expected n fields, saw m")
read_csv_fails(file) ==
    \E i \in 2..Len(file.lines) : Len(file.lines[i]) > Len(file.lines[1])

\* position of a column of the header
ColIndex(header, name) == CHOOSE i \in 1..Len(header) : header[i] = name

HasColumns(header, names) ==
    \A n \in names : \E i \in 1..Len(header) : header[i] = n

\* the dict comprehension over df.iterrows(): later lines override earlier
\* ones; skip_empty is the pd.notna filter of the iata_code scheme
RECURSIVE RowsToDict(_, _, _, _)
RowsToDict(file, i, key_col, skip_empty) ==
    IF i = 0 THEN [c \in {} |-> <<>>]
    ELSE LET d == RowsToDict(file, i - 1, key_col, skip_empty)
             line == file.lines[i]
             key == line[ColIndex(file.header, key_col)]
             lat == read_decimal(line[ColIndex(file.header, "Lat")])
             lon == read_decimal(line[ColIndex(file.header, "Long")])
         IN  IF skip_empty /\ key = "" THEN d
             ELSE [c \in DOMAIN d \cup {key} |->
                      IF c = key THEN <<lat, lon>> ELSE d[c]]

\* AirportService._load_coordinates for an existing file.  The file is
\* `;`-separated, so the attempts with ',' and tab see a single column whose
\* name holds the whole header and match neither scheme: when the `;`
\* attempt fails or matches no scheme, IOError is raised.
_load_coordinates(file) ==
    IF read_csv_fails(file) THEN [error |-> TRUE, coordinates |-> <<>>]
    ELSE IF HasColumns(file.header, {"iata_code", "Lat", "Long"})
    THEN [error |-> FALSE,
          coordinates |-> RowsToDict(file, Len(file.lines), "iata_code", TRUE)]
    ELSE IF HasColumns(file.header, {"IATA", "Lat", "Long"})
    THEN [error |-> FALSE,
          coordinates |-> RowsToDict(file, Len(file.lines), "IATA", FALSE)]
    ELSE [error |-> TRUE, coordinates |-> <<>>]

\* what a reload of the file resolves (nothing when it cannot be loaded)
Resolvable(file) ==
    IF ~file.exists \/ _load_coordinates(file).error THEN [c \in {} |-> <<>>]
    ELSE _load_coordinates(file).coordinates

\* mutant: the rows of the failed attempt are still in the list
FreshScheduleList_Kept(old) == old

\* the local schedule_list = [] of a new _process_roster_data call
FreshScheduleList(old) == <<>>

\* mutant: the new airport is persisted but not put in the in-memory directory
add_airport_FileOnly(directory, file, iata_code, lat, lon) ==
    [coordinates |-> directory,
     csv |-> _save_to_csv(file, iata_code, lat, lon)]

\* AirportService.add_airport
add_airport(directory, file, iata_code, lat, lon) ==
    [coordinates |-> [c \in DOMAIN directory \cup {iata_code} |->
                         IF c = iata_code THEN <<lat, lon>> ELSE directory[c]],
     csv |-> _save_to_csv(file, iata_code, lat, lon)]

(***************************************************************************)
(* _calculate_ido_bonuses                                                  *)
(***************************************************************************)
\* str.split(sep) for a one-character separator
RECURSIVE Split(_, _)
Split(s, sep) ==
    LET hits == {i \in 1..Len(s) : s[i] = sep} IN
    IF hits = {} THEN <<s>>
    ELSE LET i == CHOOSE h \in hits : \A g \in hits : h <= g IN
         <<SubSeq(s, 1, i - 1)>> \o Split(SubSeq(s, i + 1, Len(s)), sep)

DigitSet == {Digits[i] : i \in 1..10}

\* re.sub(r'[^\d:]', '', s)
KeepDigitsAndColons(s) == SelectSeq(s, LAMBDA c : c \in DigitSet \/ c = ":")

\* the parsing of a landing time: ok is FALSE where the source skips the pair
\* (fewer than two parts, int() raising ValueError, values out of range)
ParseLandingTime(landing_time) ==
    LET main_time == Split(landing_time, "/")[1]
        time_str == KeepDigitsAndColons(main_time)
        time_parts == Split(time_str, ":")
    IN  IF Len(time_parts) < 2 THEN [ok |-> FALSE, hours |-> 0, minutes |-> 0]
        ELSE IF time_parts[1] = <<>> \/ time_parts[2] = <<>>
        THEN [ok |-> FALSE, hours |-> 0, minutes |-> 0]
        ELSE LET hours == StrToNat(time_parts[1])
                 minutes == StrToNat(time_parts[2])
             IN  IF ~(0 <= hours /\ hours <= 23 /\ 0 <= minutes /\ minutes <= 59)
                 THEN [ok |-> FALSE, hours |-> 0, minutes |-> 0]
                 ELSE [ok |-> TRUE, hours |-> hours, minutes |-> minutes]

\* days of the months of a non-leap year
MonthDays == <<31, 28, 31, 30, 31, 30, 31, 31, 30, 31, 30, 31>>

RECURSIVE DaysBeforeMonth(_)
DaysBeforeMonth(m) ==
    IF m <= 1 THEN 0 ELSE DaysBeforeMonth(m - 1) + MonthDays[m - 1]

\* datetime.strptime(date, '%Y-%m-%d') as minutes since 2025-01-01 00:00
\* (dates of the model lie in the non-leap years 2025 and 2026)
DateMinutes(date) ==
    ((date.y - 2025) * 365 + DaysBeforeMonth(date.m) + (date.d - 1)) * 1440

\* mutant: every landing is taken to be on the day after day1
LandingDatetime_NextDay(day1_date, hours, minutes) ==
    DateMinutes(day1_date) + hours * 60 + minutes + 1440

\* landing_datetime: the landing on day1's date, a day later when hours < 5
LandingDatetime(day1_date, hours, minutes) ==
    DateMinutes(day1_date) + hours * 60 + minutes
    + (IF hours < 5 THEN 1440 ELSE 0)

\* mutant: a landing exactly 29 minutes before the start of day2 fires
IdoFires_Inclusive(landing_datetime, day2_start) ==
    landing_datetime >= day2_start - 29

\* the rest-violation check
IdoFires(landing_datetime, day2_start) ==
    landing_datetime > day2_start - 29

\* mutant: a landing exactly 90 minutes into day2 pays the full value
IdoBonus_Strict90(day1, day2_type, minutes_into_day_off, unit) ==
    IF day2_type \in {s_Day_Off, s_Leave}
    THEN IF minutes_into_day_off < 90
         THEN <<[date |-> day1.date, symbol |-> "(++EUR)", amount |-> unit \div 2]>>
         ELSE <<[date |-> day1.date, symbol |-> "(+++EUR)", amount |-> unit]>>
    ELSE IF day2_type = s_Standby
    THEN <<[date |-> day1.date, symbol |-> "(+EUR)", amount |-> 0]>>
    ELSE <<>>

\* the BonusInfo appended once the check fired (the symbols end in the euro
\* sign in the source)
IdoBonus(day1, day2_type, minutes_into_day_off, unit) ==
    IF day2_type \in {s_Day_Off, s_Leave}
    THEN IF minutes_into_day_off <= 90
         THEN <<[date |-> day1.date, symbol |-> "(++EUR)", amount |-> unit \div 2]>>
         ELSE <<[date |-> day1.date, symbol |-> "(+++EUR)", amount |-> unit]>>
    ELSE IF day2_type = s_Standby
    THEN <<[date |-> day1.date, symbol |-> "(+EUR)", amount |-> 0]>>
    ELSE <<>>

\* mutant: the first leg of day1 is taken instead of the last
LastLeg_First(legs) == legs[1]

\* legs[-1]
LastLeg(legs) == legs[Len(legs)]

\* body of the pair loop: the BonusInfo records the pair appends
PairBonuses(day1, day2, unit) ==
    IF Get(day1.duty, "type", <<>>) = s_Flight
       /\ Get(day1.duty, "legs", <<>>) # <<>>
    THEN LET last_leg == LastLeg(day1.duty.legs)
             landing_time == Get(last_leg, "landingTime", <<>>)
         IN  IF landing_time = <<>> THEN <<>>
             ELSE LET t == ParseLandingTime(landing_time) IN
                  IF ~t.ok THEN <<>>
                  ELSE LET landing_datetime ==
                               LandingDatetime(day1.date, t.hours, t.minutes)
                           day2_start == DateMinutes(day2.date)
                       IN  IF IdoFires(landing_datetime, day2_start)
                           THEN IdoBonus(day1, Get(day2.duty, "type", <<>>),
                                         landing_datetime - day2_start, unit)
                           ELSE <<>>
    ELSE <<>>

(***************************************************************************)
(* _calculate_earnings                                                     *)
(***************************************************************************)
\* is_operational of a row
IsOperational(row) == row.Attivita = s_Flight /\ ~row.IsPositioning

\* column 'Settori Operativi'
SettoriOperativi(row) == IF IsOperational(row) THEN row.Settori ELSE 0

\* column 'Settori Cumulativi Operativi' at row i (cumsum)
RECURSIVE SettoriCumulativiOperativi(_, _)
SettoriCumulativiOperativi(rows, i) ==
    IF i = 0 THEN 0
    ELSE SettoriCumulativiOperativi(rows, i - 1) + SettoriOperativi(rows[i])

\* mutant: the crossing row is not split, it is paid at the regular rate
OperationalEarnings_NoSplit(sectors_this_row, prev, cumulative_operational, rate, threshold) ==
    IF prev >= threshold
    THEN sectors_this_row * rate * OVERTIME_SECTOR_MULTIPLIER
    ELSE sectors_this_row * rate

\* mutant: overtime only once the counter is strictly above the threshold
OperationalEarnings_StrictOvertime(sectors_this_row, prev, cumulative_operational, rate, threshold) ==
    IF prev < threshold /\ cumulative_operational > threshold
    THEN (threshold - prev) * rate
         + (cumulative_operational - threshold) * rate * OVERTIME_SECTOR_MULTIPLIER
    ELSE IF prev > threshold
    THEN sectors_this_row * rate * OVERTIME_SECTOR_MULTIPLIER
    ELSE sectors_this_row * rate

\* earnings of an operational row with sectors > 0
OperationalEarnings(sectors_this_row, prev, cumulative_operational, rate, threshold) ==
    IF prev < threshold /\ cumulative_operational > threshold
    THEN (threshold - prev) * rate
         + (cumulative_operational - threshold) * rate * OVERTIME_SECTOR_MULTIPLIER
    ELSE IF prev >= threshold
    THEN sectors_this_row * rate * OVERTIME_SECTOR_MULTIPLIER
    ELSE sectors_this_row * rate

\* earnings of a non-operational row with sectors > 0
OtherEarnings(row, rate) ==
    IF row.IsPositioning THEN row.Settori * rate
    ELSE IF row.IsAirportDuty THEN row.Settori * rate
    ELSE IF row.IsTraining THEN row.Settori * rate
    ELSE 0

\* body of the row loop: the earnings written to the row
RowEarnings(row, prev, cumulative_operational, rate, threshold) ==
    IF row.Settori > 0
    THEN IF IsOperational(row)
         THEN OperationalEarnings(row.Settori, prev, cumulative_operational,
                                  rate, threshold)
         ELSE OtherEarnings(row, rate)
    ELSE 0

\* mutant: every paid row advances the running counter
RowCounter_CountsAll(row, prev, cumulative_operational) ==
    IF row.Settori > 0 THEN prev + row.Settori ELSE prev

\* body of the row loop: the running counter after the row
RowCounter(row, prev, cumulative_operational) ==
    IF row.Settori > 0 /\ IsOperational(row) THEN cumulative_operational
    ELSE prev

(***************************************************************************)
(* Inputs of the earnings specification                                    *)
(***************************************************************************)
EarnLeg(fn, o, d, pos) ==
    [flightNumber |-> fn, origin |-> o, destination |-> d, isPositioning |-> pos]

EarnDuties ==
    { [type |-> s_Flight, legs |-> <<EarnLeg(s_EJU2551, "MXP", "FCO", FALSE)>>],
      [type |-> s_Flight, legs |-> <<EarnLeg(s_EJU2551, "MXP", "SSH", FALSE)>>],
      [type |-> s_Flight, legs |-> <<EarnLeg(s_EJU2551, "MXP", "LPA", TRUE)>>],
      [type |-> s_Flight, legs |-> <<EarnLeg(s_TAXI71, "MXP", "SSH", TRUE)>>],
      [type |-> s_Flight, legs |-> <<EarnLeg(s_TAXI71, "MXP", "ATH", FALSE)>>],
      [type |-> s_Flight, legs |-> <<EarnLeg(s_EJU2551, "MXP", "MXP", FALSE)>>],
      [type |-> s_Flight, legs |-> <<EarnLeg(s_EJU2551, "XWT", "MXP", FALSE)>>,
       training_duties |-> <<[type |-> s_GS, description |-> s_Ground_School,
                              sectors |-> 40]>>],
      [type |-> s_Flight, legs |-> <<EarnLeg(s_EJU2551, "MXP", "FCO", FALSE),
                                     EarnLeg(s_EJU2551, "FCO", "MXP", FALSE)>>],
      [type |-> s_Flight, legs |-> <<EarnLeg(s_EJU2551, "MXP", "ATH", FALSE),
                                     EarnLeg(s_TAXI71, "ATH", "MXP", TRUE)>>],
      [type |-> s_Airport_Duty, description |-> s_Airport_Duty,
       legs |-> <<>>, airport_duty_hours |-> 360, was_called |-> FALSE],
      [type |-> s_Training, description |-> s_Simulator, legs |-> <<>>],
      [type |-> s_Standby, description |-> s_MXP_Standby, legs |-> <<>>],
      [type |-> s_Day_Off, description |-> s_Guaranteed_Day_Off, legs |-> <<>>] }

\* the date of the i-th day of a roster of March 2025
EarnDate(i) == [y |-> 2025, m |-> 3, d |-> i]

\* the roster made of the duties ds, one per day
EarnSchedule(ds) ==
    [i \in 1..Len(ds) |-> [date |-> EarnDate(i), duty |-> ds[i]]]

(***************************************************************************)
(* Inputs of the airport specification                                     *)
(***************************************************************************)
MaxAirDays == 2

\* a file of the five-column scheme icao_code;iata_code;gps_code;Lat;Long
EuCsv ==
    [exists |-> TRUE,
     header |-> <<"icao_code", "iata_code", "gps_code", "Lat", "Long">>,
     lines |-> << <<"LIMC", "MXP", "LIMC", <<"4", "5", ",", "6", "3", "0", "6">>, <<"8", ",", "7", "2", "8", "1">>>>,
                  <<"LIRF", "FCO", "LIRF", <<"4", "1", ",", "8", "0", "0", "3">>, <<"1", "2", ",", "2", "3", "8", "9">>>> >>]

\* the five-column file behind the test directory
TestCsv ==
    [exists |-> TRUE,
     header |-> <<"icao_code", "iata_code", "gps_code", "Lat", "Long">>,
     lines |-> << <<"LIMC", "MXP", "LIMC", <<"4", "6", ",", "0">>, <<"9", ",", "0">>>>,
                  <<"LIRF", "FCO", "LIRF", <<"4", "2", ",", "0">>, <<"9", ",", "0">>>>,
                  <<"LGAV", "ATH", "LGAV", <<"3", "6", ",", "0">>, <<"9", ",", "0">>>>,
                  <<"GCLP", "LPA", "GCLP", <<"2", "8", ",", "0">>, <<"9", ",", "0">>>>,
                  <<"HESH", "SSH", "HESH", <<"1", "6", ",", "0">>, <<"9", ",", "0">>>> >>]

AirDuties ==
    { [type |-> s_Flight, legs |-> <<EarnLeg(s_EJU2551, "MXP", "FCO", FALSE)>>],
      [type |-> s_Flight, legs |-> <<EarnLeg(s_EJU2551, "MXP", "XXA", FALSE),
                                     EarnLeg(s_EJU2551, "XXA", "MXP", FALSE)>>],
      [type |-> s_Flight, legs |-> <<EarnLeg(s_EJU2551, "XXB", "XXA", FALSE)>>],
      [type |-> s_Standby, description |-> s_MXP_Standby, legs |-> <<>>] }

\* the roster made of the duties ds, one per day
AirSchedule(ds) ==
    [i \in 1..Len(ds) |-> [date |-> EarnDate(i), duty |-> ds[i]]]

\* coordinates the user types into NewAirportDialog: <<lat, lon>>, on the
\* meridian of MXP
DialogInputs == { <<420500, 87281>>, <<-122500, 87281>> }

\* codes looked up directly
LookupCodes == {"MXP", "XXA"}

EmptyDirectory == [c \in {} |-> <<>>]

(***************************************************************************)
(* Actions                                                                 *)
(***************************************************************************)
calcLocals == <<dayIdx, schedule_list, rowIdx, operational_sectors_prev, guadagno>>

\* AirportService.__init__: coordinates = {} and _load_coordinates
StartService ==
    /\ UNCHANGED <<idoVars, laterVars>>
    /\ svc = "off"
    /\ IF ~csv.exists
       THEN /\ csv' = _create_default_csv(csv)
            /\ coordinates' = EmptyDirectory
            /\ svc' = "up"
       ELSE /\ csv' = csv
            /\ IF _load_coordinates(csv).error
               THEN coordinates' = EmptyDirectory /\ svc' = "crashed"
               ELSE coordinates' = _load_coordinates(csv).coordinates /\ svc' = "up"
    /\ persisted0' = Resolvable(csv')
    /\ UNCHANGED <<lastLookup, raisedCode, added, attempts, earnVars>>

\* the process ends; the next one starts from the file
Restart ==
    /\ UNCHANGED <<idoVars, laterVars>>
    /\ svc = "up"
    /\ pc \in {"call", "done", "no_data", "cancelled"}
    /\ svc' = "off"
    /\ coordinates' = EmptyDirectory
    /\ pc' = "call"
    /\ attempts' = 0
    /\ dayIdx' = 1 /\ schedule_list' = <<>> /\ rowIdx' = 0
    /\ operational_sectors_prev' = 0 /\ guadagno' = <<>>
    /\ raisedCode' = "" /\ lastLookup' = [code |-> "", raised |-> "", value |-> <<>>]
    /\ UNCHANGED <<csv, added, persisted0, dailySchedule, sector_value,
                   sector_threshold>>

\* a direct call of get_coordinates
LookupCoordinates ==
    /\ UNCHANGED <<idoVars, laterVars>>
    /\ svc = "up"
    /\ pc = "call"
    /\ \E code \in LookupCodes :
          lastLookup' = [code |-> code,
                         raised |-> get_coordinates(coordinates, code).raised,
                         value |-> get_coordinates(coordinates, code).value]
    /\ UNCHANGED <<svc, coordinates, csv, raisedCode, added, persisted0,
                   attempts, earnVars>>

\* _calculate_salary: one pass of `while True` calls calculate_salary, which
\* enters _process_roster_data
CallCalculate ==
    /\ UNCHANGED <<idoVars, laterVars>>
    /\ svc = "up"
    /\ pc = "call"
    /\ pc' = "days"
    /\ attempts' = attempts + 1
    /\ dayIdx' = 1
    /\ schedule_list' = FreshScheduleList(schedule_list)
    /\ rowIdx' = 0
    /\ operational_sectors_prev' = 0
    /\ guadagno' = <<>>
    /\ UNCHANGED <<svc, coordinates, csv, lastLookup, raisedCode, added,
                   persisted0, dailySchedule, sector_value, sector_threshold>>

\* roster_month: the month before payment_month, December before January;
\* 0 (None) without a payment month
RosterMonth(month) ==
    IF month = 0 THEN 0
    ELSE IF month > 1 THEN month - 1 ELSE 12

\* mutant: no day is skipped
DaySkipped_Never(day, month) == FALSE

\* the month filter of the day loop: `continue` for a day of another month
DaySkipped(day, month) ==
    RosterMonth(month) # 0 /\ day.date.m # RosterMonth(month)

\* one iteration of `for day in data.get('dailySchedule', [])`
ProcessDay ==
    /\ UNCHANGED <<idoVars, laterVars>>
    /\ pc = "days"
    /\ dayIdx <= Len(dailySchedule)
    /\ LET r == DayRows(dailySchedule[dayIdx], coordinates) IN
       IF DaySkipped(dailySchedule[dayIdx], payment_month)
       THEN schedule_list' = schedule_list
       ELSE /\ r.raised = ""
            /\ schedule_list' = schedule_list \o r.rows
    /\ dayIdx' = dayIdx + 1
    /\ UNCHANGED <<airVars, dailySchedule, sector_value, sector_threshold, pc,
                   rowIdx, operational_sectors_prev, guadagno>>

\* a leg of the day does not resolve: MissingAirportError leaves
\* calculate_salary and is caught by _calculate_salary
RaiseMissingAirport ==
    /\ UNCHANGED <<idoVars, laterVars>>
    /\ pc = "days"
    /\ dayIdx <= Len(dailySchedule)
    /\ ~DaySkipped(dailySchedule[dayIdx], payment_month)
    /\ LET r == DayRows(dailySchedule[dayIdx], coordinates) IN
       /\ r.raised # ""
       /\ raisedCode' = r.raised
    /\ pc' = "dialog"
    /\ UNCHANGED <<svc, coordinates, csv, lastLookup, added, persisted0,
                   attempts, dailySchedule, sector_value, sector_threshold,
                   calcLocals>>

\* the user supplies coordinates: add_airport, and the loop goes round
DialogSupply ==
    /\ UNCHANGED <<idoVars, laterVars>>
    /\ pc = "dialog"
    /\ \E ll \in DialogInputs :
        LET r == add_airport(coordinates, csv, raisedCode, ll[1], ll[2]) IN
        /\ coordinates' = r.coordinates
        /\ csv' = r.csv
        /\ added' = [c \in DOMAIN added \cup {raisedCode} |->
                        IF c = raisedCode THEN ll ELSE added[c]]
    /\ pc' = "call"
    /\ UNCHANGED <<svc, lastLookup, raisedCode, persisted0, attempts,
                   dailySchedule, sector_value, sector_threshold, calcLocals>>

\* the user cancels the dialog: _calculate_salary returns without a result
DialogCancel ==
    /\ UNCHANGED <<idoVars, laterVars>>
    /\ pc = "dialog"
    /\ pc' = "cancelled"
    /\ UNCHANGED <<airVars, dailySchedule, sector_value, sector_threshold,
                   calcLocals>>

\* end of the day loop with no row: the empty result is returned
ReturnEmpty ==
    /\ UNCHANGED <<idoVars, laterVars>>
    /\ pc = "days"
    /\ dayIdx > Len(dailySchedule)
    /\ schedule_list = <<>>
    /\ pc' = "no_data"
    /\ UNCHANGED <<airVars, dailySchedule, sector_value, sector_threshold,
                   calcLocals>>

\* end of the day loop: the DataFrame is built and _calculate_earnings starts
StartEarnings ==
    /\ UNCHANGED <<idoVars, laterVars>>
    /\ pc = "days"
    /\ dayIdx > Len(dailySchedule)
    /\ schedule_list # <<>>
    /\ pc' = "earn"
    /\ rowIdx' = 1
    /\ operational_sectors_prev' = 0
    /\ guadagno' = [i \in 1..Len(schedule_list) |-> 0]
    /\ UNCHANGED <<airVars, dailySchedule, sector_value, sector_threshold,
                   dayIdx, schedule_list>>

\* one iteration of `for i, row in df.iterrows()`
EarnRow ==
    /\ UNCHANGED <<idoVars, laterVars>>
    /\ pc = "earn"
    /\ rowIdx <= Len(schedule_list)
    /\ LET row == schedule_list[rowIdx]
           cum == SettoriCumulativiOperativi(schedule_list, rowIdx)
       IN  /\ guadagno' = [guadagno EXCEPT ![rowIdx] =
                  RowEarnings(row, operational_sectors_prev, cum,
                              sector_value, sector_threshold)]
           /\ operational_sectors_prev' =
                  RowCounter(row, operational_sectors_prev, cum)
    /\ rowIdx' = rowIdx + 1
    /\ UNCHANGED <<airVars, dailySchedule, sector_value, sector_threshold, pc,
                   dayIdx, schedule_list>>

\* `return df`: the calculation has its result
EarnReturn ==
    /\ UNCHANGED <<idoVars, laterVars>>
    /\ pc = "earn"
    /\ rowIdx > Len(schedule_list)
    /\ pc' = "done"
    /\ UNCHANGED <<airVars, dailySchedule, sector_value, sector_threshold,
                   calcLocals>>

(***************************************************************************)
(* Specification SpecEarn: calculate_salary up to the end of               *)
(* _calculate_earnings, against a directory that resolves every code.      *)
(***************************************************************************)
\* the later steps have not started
NoSalary == [computed |-> FALSE]

NotParsed == [returned |-> FALSE, raised |-> "", message |-> <<>>,
              dailySchedule |-> <<>>]

\* the profile of a First Officer on a Standard contract, no month filter
ProfileIdle ==
    /\ payment_month = 0
    /\ position = "FO"
    /\ extra_position = "Nessuna"
    /\ contract_type = "Standard"
    /\ snc_units = 0

SalaryIdle == salary_calc = NoSalary

SectorIdle == arg_distance = 0 /\ ret_sectors = 0

TaxIdle == tax_total = 0 /\ tax_brackets = <<>> /\ tax_result = 0

ParseIdle ==
    /\ content = <<>>
    /\ parse_lines = <<>>
    /\ parse_idx = 1
    /\ current_day_lines = <<>>
    /\ parsed_days = <<>>
    /\ parse_result = NotParsed

LaterIdle ==
    /\ home_base = "MXP"
    /\ scanIdx = 1
    /\ night_stop_bonus = 0
    /\ extra_days = {}
    /\ midnight_days = 0
    /\ midnight_standby_dates = {}
    /\ ProfileIdle
    /\ SalaryIdle
    /\ SectorIdle
    /\ TaxIdle
    /\ ParseIdle

InitEarn ==
    /\ svc = "up"
    /\ coordinates = TestCoordinates
    /\ csv = TestCsv
    /\ lastLookup = [code |-> "", raised |-> "", value |-> <<>>]
    /\ raisedCode = ""
    /\ added = EmptyDirectory
    /\ persisted0 = TestCoordinates
    /\ attempts = 0
    /\ \E n \in 0..MaxDays : \E ds \in [1..n -> EarnDuties] :
          dailySchedule = EarnSchedule(ds)
    /\ sector_value \in {FOSectorValue, CPTSectorValue}
    /\ sector_threshold \in EarnThresholds
    /\ pc = "call"
    /\ dayIdx = 1
    /\ schedule_list = <<>>
    /\ rowIdx = 0
    /\ operational_sectors_prev = 0
    /\ guadagno = <<>>
    /\ ido_value = FOIdoValue
    /\ idoIdx = 1
    /\ bonuses = <<>>
    /\ LaterIdle

NextEarn ==
    CallCalculate \/ ProcessDay \/ ReturnEmpty \/ StartEarnings \/ EarnRow
    \/ EarnReturn

SpecEarn == InitEarn /\ [][NextEarn]_vars

(***************************************************************************)
(* Specification SpecAir: the AirportService over process restarts and the *)
(* missing-airport loop of _calculate_salary.                              *)
(***************************************************************************)
\* SalaryConfig.CONTRACTS['Standard']['soglia_settori'], tenths of a sector
StandardThreshold == 350

InitAir ==
    /\ svc = "off"
    /\ coordinates = EmptyDirectory
    /\ csv \in {NoFile, DefaultCsv, EuCsv}
    /\ lastLookup = [code |-> "", raised |-> "", value |-> <<>>]
    /\ raisedCode = ""
    /\ added = EmptyDirectory
    /\ persisted0 = EmptyDirectory
    /\ attempts = 0
    /\ \E n \in 0..MaxAirDays : \E ds \in [1..n -> AirDuties] :
          dailySchedule = AirSchedule(ds)
    /\ sector_value = FOSectorValue
    /\ sector_threshold = StandardThreshold
    /\ pc = "call"
    /\ dayIdx = 1
    /\ schedule_list = <<>>
    /\ rowIdx = 0
    /\ operational_sectors_prev = 0
    /\ guadagno = <<>>
    /\ ido_value = FOIdoValue
    /\ idoIdx = 1
    /\ bonuses = <<>>
    /\ LaterIdle

NextAir ==
    StartService \/ Restart \/ LookupCoordinates \/ CallCalculate
    \/ ProcessDay \/ RaiseMissingAirport \/ DialogSupply \/ DialogCancel
    \/ ReturnEmpty \/ StartEarnings \/ EarnRow \/ EarnReturn

SpecAir == InitAir /\ [][NextAir]_vars

(***************************************************************************)
(* Specification SpecIdo: _calculate_ido_bonuses                           *)
(***************************************************************************)
MaxIdoDays == 4

t_2331 == <<"2", "3", ":", "3", "1">>
t_2332 == <<"2", "3", ":", "3", "2">>
t_0130 == <<"0", "1", ":", "3", "0">>
t_0131 == <<"0", "1", ":", "3", "1">>
t_0500 == <<"0", "5", ":", "0", "0">>
t_2200 == <<"2", "2", ":", "0", "0">>
\* 01:55 followed by the superscript one (chr(185), one character) and /00:36
t_0155_marked == <<"0", "1", ":", "5", "5", "sup1", "/", "0", "0", ":", "3", "6">>
t_no_hours == <<":", "3", "0">>
t_no_colon == <<"2", "3", "5", "0">>

IdoLeg(landing) ==
    [flightNumber |-> s_EJU2551, origin |-> "MXP", destination |-> "FCO",
     isPositioning |-> FALSE, takeOffTime |-> t_2200, landingTime |-> landing]

IdoDuties ==
    { [type |-> s_Flight, legs |-> <<IdoLeg(t)>>] :
         t \in {t_2331, t_2332, t_0130, t_0131, t_0500, t_0155_marked,
                t_no_hours, t_no_colon} }
    \cup
    { [type |-> s_Flight, legs |-> <<IdoLeg(t_0131), IdoLeg(t_2200)>>],
      [type |-> s_Flight,
       legs |-> <<[flightNumber |-> s_EJU2551, origin |-> "MXP",
                   destination |-> "FCO", isPositioning |-> FALSE]>>],
      [type |-> s_Day_Off, description |-> s_Guaranteed_Day_Off, legs |-> <<>>],
      [type |-> s_Leave, description |-> s_Annual_leave, legs |-> <<>>],
      [type |-> s_Standby, description |-> s_MXP_Standby, legs |-> <<>>] }

\* the date of the i-th day of a roster that starts on 30 January 2025; when
\* gap is TRUE no day is rostered on 1 February
IdoDate(i, gap) ==
    LET n == 29 + i + (IF gap /\ i >= 3 THEN 1 ELSE 0) IN
    IF n <= 31 THEN [y |-> 2025, m |-> 1, d |-> n]
    ELSE [y |-> 2025, m |-> 2, d |-> n - 31]

\* the roster made of the duties ds, one per day
IdoSchedule(ds, gap) ==
    [i \in 1..Len(ds) |-> [date |-> IdoDate(i, gap), duty |-> ds[i]]]

InitIdo ==
    /\ svc = "up"
    /\ coordinates = TestCoordinates
    /\ csv = TestCsv
    /\ lastLookup = [code |-> "", raised |-> "", value |-> <<>>]
    /\ raisedCode = ""
    /\ added = EmptyDirectory
    /\ persisted0 = TestCoordinates
    /\ attempts = 0
    /\ \E n \in 0..MaxIdoDays : \E ds \in [1..n -> IdoDuties] :
          \E gap \in BOOLEAN : dailySchedule = IdoSchedule(ds, gap)
    /\ sector_value = FOSectorValue
    /\ sector_threshold = StandardThreshold
    /\ pc = "ido"
    /\ dayIdx = 1
    /\ schedule_list = <<>>
    /\ rowIdx = 0
    /\ operational_sectors_prev = 0
    /\ guadagno = <<>>
    /\ ido_value \in {SFOIdoValue}
    /\ idoIdx = 1
    /\ bonuses = <<>>
    /\ LaterIdle

\* one iteration of `for i in range(len(schedule) - 1)`
IdoPair ==
    /\ pc = "ido"
    /\ idoIdx <= Len(dailySchedule) - 1
    /\ bonuses' = bonuses \o PairBonuses(dailySchedule[idoIdx],
                                         dailySchedule[idoIdx + 1], ido_value)
    /\ idoIdx' = idoIdx + 1
    /\ UNCHANGED <<airVars, earnVars, ido_value, laterVars>>

\* `return bonuses`
IdoReturn ==
    /\ pc = "ido"
    /\ idoIdx > Len(dailySchedule) - 1
    /\ pc' = "ido_done"
    /\ UNCHANGED <<airVars, dailySchedule, sector_value, sector_threshold,
                   calcLocals, idoVars, laterVars>>

NextIdo == IdoPair \/ IdoReturn

SpecIdo == InitIdo /\ [][NextIdo]_vars

(***************************************************************************)
(* Claims on _calculate_earnings (SpecEarn)                                *)
(***************************************************************************)
\* rows whose earnings the row loop has written
Processed == IF pc = "earn" THEN 1..(rowIdx - 1)
             ELSE IF pc = "done" THEN 1..Len(guadagno)
             ELSE {}

\* operational sectors of the rows before row k, summed from the rows
RECURSIVE OpSectorsBefore(_, _)
OpSectorsBefore(rows, k) ==
    IF k <= 1 THEN 0
    ELSE OpSectorsBefore(rows, k - 1)
         + (IF rows[k - 1].Attivita = s_Flight /\ ~rows[k - 1].IsPositioning
            THEN rows[k - 1].Settori ELSE 0)

OperationalRow(k) ==
    schedule_list[k].Attivita = s_Flight /\ ~schedule_list[k].IsPositioning

\* C1: an operational entry with b < T operational sectors before it and
\* c >= T after it earns (T - b) * r + (c - T) * r * 2.
C1_CrossingEntrySplit ==
    \A k \in Processed :
        LET b == OpSectorsBefore(schedule_list, k)
            c == b + schedule_list[k].Settori
        IN  (OperationalRow(k) /\ b < sector_threshold /\ c >= sector_threshold)
            => guadagno[k] = (sector_threshold - b) * sector_value
                             + (c - sector_threshold) * sector_value * 2

\* a finished scan with an entry that starts below the threshold, after other
\* operational sectors, and ends strictly above it
C1_Witness ==
    /\ pc = "done"
    /\ \E k \in Processed :
        LET b == OpSectorsBefore(schedule_list, k)
            c == b + schedule_list[k].Settori
        IN  /\ OperationalRow(k)
            /\ 0 < b /\ b < sector_threshold /\ c > sector_threshold
            /\ guadagno[k] > schedule_list[k].Settori * sector_value

\* C2: an operational entry that stays below the threshold earns
\* sectors * r, one that starts at or above the threshold earns
\* sectors * r * 2, and a roster whose operational sectors never reach the
\* threshold has no entry paid above sectors * r.
C2_RegularAndOvertime ==
    /\ \A k \in Processed :
        LET b == OpSectorsBefore(schedule_list, k)
            s == schedule_list[k].Settori
        IN  OperationalRow(k) =>
              /\ (b + s < sector_threshold => guadagno[k] = s * sector_value)
              /\ (b >= sector_threshold => guadagno[k] = s * sector_value * 2)
    /\ (pc = "done" /\ guadagno # <<>>
        /\ OpSectorsBefore(schedule_list, Len(schedule_list) + 1) < sector_threshold)
       => \A k \in Processed :
             guadagno[k] \in {0, schedule_list[k].Settori * sector_value}

\* a finished scan with an entry paid in full at the overtime multiplier after
\* an entry paid at the regular rate
C2_Witness ==
    /\ pc = "done"
    /\ \E j, k \in Processed :
        /\ j < k /\ OperationalRow(j) /\ OperationalRow(k)
        /\ schedule_list[j].Settori > 0 /\ schedule_list[k].Settori > 0
        /\ guadagno[j] = schedule_list[j].Settori * sector_value
        /\ OpSectorsBefore(schedule_list, k) >= sector_threshold
        /\ guadagno[k] = schedule_list[k].Settori * sector_value * 2

\* a Positioning, Airport Duty or Training entry with sectors > 0
FlatRateRow(row) ==
    /\ row.Settori > 0
    /\ row.Attivita = s_Positioning \/ row.IsAirportDuty \/ row.IsTraining

\* C3: the step that processes a Positioning, Airport Duty or Training entry
\* with sectors > 0 writes sectors * r and leaves the running counter as it
\* was.
C3_FlatRateEntries ==
    [][(pc = "earn" /\ rowIdx' = rowIdx + 1 /\ FlatRateRow(schedule_list[rowIdx]))
       => (/\ guadagno'[rowIdx] = schedule_list[rowIdx].Settori * sector_value
           /\ operational_sectors_prev' = operational_sectors_prev)]_vars

\* a Positioning entry and an Airport Duty or Training entry were processed
\* after the threshold was reached
C3_Witness ==
    /\ pc = "done"
    /\ \E j, k \in Processed :
        /\ FlatRateRow(schedule_list[j]) /\ FlatRateRow(schedule_list[k])
        /\ schedule_list[j].Attivita = s_Positioning
        /\ schedule_list[k].IsAirportDuty \/ schedule_list[k].IsTraining
        /\ OpSectorsBefore(schedule_list, j) >= sector_threshold
        /\ OpSectorsBefore(schedule_list, k) >= sector_threshold
        /\ guadagno[j] = schedule_list[j].Settori * sector_value
        /\ guadagno[k] = schedule_list[k].Settori * sector_value

\* C4: the entry of a leg whose flight identifier starts with TAXI carries no
\* operational sectors, and the step that processes it writes 0 earnings and
\* leaves the running counter as it was.
C4_TaxiUnpaid ==
    [][(pc = "earn" /\ rowIdx' = rowIdx + 1
        /\ StartsWith(schedule_list[rowIdx].Volo, s_TAXI))
       => (/\ guadagno'[rowIdx] = 0
           /\ operational_sectors_prev' = operational_sectors_prev
           /\ SettoriCumulativiOperativi(schedule_list, rowIdx)
              = SettoriCumulativiOperativi(schedule_list, rowIdx - 1))]_vars

\* TAXI entries over a non-zero distance were processed before and after the
\* threshold was reached, flagged as positioning or not
C4_Witness ==
    /\ pc = "done"
    /\ \E j, k \in Processed :
        /\ StartsWith(schedule_list[j].Volo, s_TAXI)
        /\ StartsWith(schedule_list[k].Volo, s_TAXI)
        /\ schedule_list[j].Distanza > 0 /\ schedule_list[k].Distanza > 0
        /\ schedule_list[j].IsPositioning /\ ~schedule_list[k].IsPositioning
        /\ OpSectorsBefore(schedule_list, j) < sector_threshold
        /\ OpSectorsBefore(schedule_list, k) >= sector_threshold
        /\ guadagno[j] = 0 /\ guadagno[k] = 0





(***************************************************************************)
(* Claims on the AirportService and the missing-airport loop (SpecAir)     *)
(***************************************************************************)
\* the rows of days 1..i computed in one go against a directory that
\* resolves every code of the roster
RECURSIVE AllRows(_, _, _)
AllRows(data, i, directory) ==
    IF i = 0 THEN <<>>
    ELSE AllRows(data, i - 1, directory) \o DayRows(data[i], directory).rows

\* the earnings of rows 1..i computed in one go
RECURSIVE EarnFold(_, _, _, _)
EarnFold(rows, i, rate, threshold) ==
    IF i = 0 THEN [prev |-> 0, col |-> <<>>]
    ELSE LET f == EarnFold(rows, i - 1, rate, threshold)
             cum == SettoriCumulativiOperativi(rows, i)
         IN  [prev |-> RowCounter(rows[i], f.prev, cum),
              col |-> Append(f.col, RowEarnings(rows[i], f.prev, cum, rate,
                                                threshold))]

\* C5: a calculation that raises MissingAirportError changes neither the
\* roster nor the directory nor the file, and the result of the attempt that
\* succeeds equals the result of one calculation from scratch against the
\* final directory.
C5_RetryIsIdempotent ==
    /\ [](pc = "done" =>
            /\ schedule_list
               = AllRows(dailySchedule, Len(dailySchedule), coordinates)
            /\ guadagno
               = EarnFold(schedule_list, Len(schedule_list), sector_value,
                          sector_threshold).col)
    /\ [][pc = "days" => /\ coordinates' = coordinates
                         /\ csv' = csv
                         /\ dailySchedule' = dailySchedule]_vars

\* a result reached on the third attempt, after an attempt that had collected
\* rows before it raised
C5_Witness ==
    /\ pc = "done"
    /\ attempts >= 3
    /\ Len(schedule_list) >= 2
    /\ schedule_list[1].Arrivo = "FCO"
    /\ \E k \in 2..Len(schedule_list) : schedule_list[k].Partenza \in DOMAIN added

\* C6: get_coordinates of a code absent from the directory raises
\* MissingAirportError carrying that code and leaves the directory and the
\* file as they were, in a direct call and inside a calculation.
C6_MissingLookup ==
    /\ [][(lastLookup' # lastLookup /\ lastLookup'.code # ""
           /\ lastLookup'.code \notin DOMAIN coordinates)
          => (/\ lastLookup'.raised = lastLookup'.code
              /\ coordinates' = coordinates
              /\ csv' = csv)]_vars
    /\ [][(pc = "days" /\ pc' = "dialog")
          => (/\ raisedCode' \notin DOMAIN coordinates
              /\ \E i \in 1..Len(dailySchedule[dayIdx].duty.legs) :
                    raisedCode' \in {dailySchedule[dayIdx].duty.legs[i].origin,
                                     dailySchedule[dayIdx].duty.legs[i].destination}
              /\ coordinates' = coordinates
              /\ csv' = csv)]_vars

\* a direct look-up of XXA failed against a loaded directory
C6_Witness ==
    /\ svc = "up"
    /\ "MXP" \in DOMAIN coordinates
    /\ lastLookup.code = "XXA"
    /\ lastLookup.raised = "XXA"

\* C7: once add_airport(code, lat, lon) was called, get_coordinates(code)
\* returns (lat, lon), in the process that added it and in every later
\* process that reloads the file.
C7_AddedAirportSurvivesRestart ==
    svc \in {"up", "crashed"} =>
        \A c \in DOMAIN added :
            /\ svc = "up"
            /\ get_coordinates(coordinates, c).raised = ""
            /\ get_coordinates(coordinates, c).value = added[c]

\* C8: every code the file resolved at start-up is resolved, to the same
\* coordinates, by a reload of the file after any add_airport calls.
C8_AppendKeepsExistingEntries ==
    svc = "up" =>
        \A c \in DOMAIN persisted0 :
            /\ c \in DOMAIN Resolvable(csv)
            /\ Resolvable(csv)[c] = persisted0[c]



(***************************************************************************)
(* Claims on _calculate_ido_bonuses (SpecIdo)                              *)
(***************************************************************************)
\* day[i] is a Flight day whose last leg has a landing time that parses
PairHasLanding(i) ==
    LET duty == dailySchedule[i].duty IN
    /\ duty.type = s_Flight
    /\ duty.legs # <<>>
    /\ "landingTime" \in DOMAIN duty.legs[Len(duty.legs)]
    /\ ParseLandingTime(duty.legs[Len(duty.legs)].landingTime).ok

\* minutes from the start of day[i+1] to the landing of day[i]'s last leg
MinutesIntoNextDay(i) ==
    LET duty == dailySchedule[i].duty
        t == ParseLandingTime(duty.legs[Len(duty.legs)].landingTime)
    IN  LandingDatetime(dailySchedule[i].date, t.hours, t.minutes)
        - DateMinutes(dailySchedule[i + 1].date)

\* the step of the scan that examines pair i
IdoStep(i) == pc = "ido" /\ idoIdx = i /\ idoIdx' = i + 1

\* day[i+1] types for which a fired check records a BonusInfo
RecordedTypes == {s_Day_Off, s_Leave, s_Standby}

\* C9 as claimed: the check fires whenever the landing is at or after the
\* start of day[i+1] minus 29 minutes (seen as a BonusInfo being recorded
\* when day[i+1] is Day Off, Leave or Standby).
C9_FiresAtOrAfter29 ==
    [][\A i \in 1..(Len(dailySchedule) - 1) :
          (/\ IdoStep(i)
           /\ PairHasLanding(i)
           /\ dailySchedule[i + 1].duty.type \in RecordedTypes
           /\ MinutesIntoNextDay(i) >= -29)
          => Len(bonuses') = Len(bonuses) + 1]_vars

\* C9 amended: the check fires exactly when the landing is strictly after
\* the start of day[i+1] minus 29 minutes.
C9_FiresStrictlyAfter29 ==
    [][\A i \in 1..(Len(dailySchedule) - 1) :
          (/\ IdoStep(i)
           /\ PairHasLanding(i)
           /\ dailySchedule[i + 1].duty.type \in RecordedTypes)
          => (Len(bonuses') = Len(bonuses) + 1
              <=> MinutesIntoNextDay(i) > -29)]_vars

\* a scan that recorded a bonus for a landing 28 minutes before a Day Off and
\* none for a landing 29 minutes before one
C9_Witness ==
    /\ pc = "ido_done"
    /\ \E i, j \in 1..(Len(dailySchedule) - 1) :
        /\ PairHasLanding(i) /\ PairHasLanding(j)
        /\ dailySchedule[i + 1].duty.type = s_Day_Off
        /\ dailySchedule[j + 1].duty.type = s_Day_Off
        /\ MinutesIntoNextDay(i) = -28
        /\ MinutesIntoNextDay(j) = -29
        /\ \E b \in 1..Len(bonuses) : bonuses[b].date = dailySchedule[i].date
        /\ \A b \in 1..Len(bonuses) : bonuses[b].date # dailySchedule[j].date

\* C10: a fired check appends exactly one BonusInfo of half the unit value
\* (Day Off or Leave, at most 90 minutes in), of the unit value (Day Off or
\* Leave, more than 90 minutes in) or of 0 (Standby), and nothing for another
\* day[i+1] type; the list is in the order of the scan.
C10_BonusRecorded ==
    /\ [][\A i \in 1..(Len(dailySchedule) - 1) :
            (IdoStep(i) /\ PairHasLanding(i) /\ MinutesIntoNextDay(i) > -29)
            => LET ty == dailySchedule[i + 1].duty.type
                   into == MinutesIntoNextDay(i)
                   n == Len(bonuses)
               IN  IF ty \in {s_Day_Off, s_Leave, s_Standby}
                   THEN /\ Len(bonuses') = n + 1
                        /\ SubSeq(bonuses', 1, n) = bonuses
                        /\ bonuses'[n + 1].date = dailySchedule[i].date
                        /\ (ty # s_Standby /\ into <= 90
                              => 2 * bonuses'[n + 1].amount = ido_value)
                        /\ (ty # s_Standby /\ into > 90
                              => bonuses'[n + 1].amount = ido_value)
                        /\ (ty = s_Standby => bonuses'[n + 1].amount = 0)
                   ELSE bonuses' = bonuses]_vars
    /\ [](\A a, b \in 1..Len(bonuses) :
            a < b => DateMinutes(bonuses[a].date) < DateMinutes(bonuses[b].date))

\* a scan that recorded half the unit value for a landing exactly 90 minutes
\* into a Day Off and then the full value for a later pair
C10_Witness ==
    /\ pc = "ido_done"
    /\ Len(bonuses) = 2
    /\ 2 * bonuses[1].amount = ido_value
    /\ bonuses[2].amount = ido_value
    /\ PairHasLanding(1)
    /\ MinutesIntoNextDay(1) = 90
    /\ dailySchedule[2].duty.type = s_Day_Off

(***************************************************************************)
(* _calculate_night_stop_bonus, _find_extra_diaria_days and                *)
(* _count_midnight_standby_days.  In a landing text "sup1" stands for the  *)
(* superscript one (chr(185)) and "repl" for the replacement character     *)
(* (U+FFFD), one character each.                                           *)
(***************************************************************************)
\* mutant: the home base is not looked at
NightStopPair_AnyBase(day1, day2, home, rate) ==
    IF Get(day1.duty, "type", <<>>) = s_Flight
       /\ Get(day2.duty, "type", <<>>) = s_Flight
    THEN LET legs1 == Get(day1.duty, "legs", <<>>)
             legs2 == Get(day2.duty, "legs", <<>>)
         IN  IF /\ legs1 # <<>>
                /\ legs2 # <<>>
                /\ legs1[Len(legs1)].destination = legs2[1].origin
             THEN 2 * rate
             ELSE 0
    ELSE 0

\* body of the pair loop of _calculate_night_stop_bonus: the amount added
NightStopPair(day1, day2, home, rate) ==
    IF Get(day1.duty, "type", <<>>) = s_Flight
       /\ Get(day2.duty, "type", <<>>) = s_Flight
    THEN LET legs1 == Get(day1.duty, "legs", <<>>)
             legs2 == Get(day2.duty, "legs", <<>>)
         IN  IF /\ legs1 # <<>>
                /\ legs2 # <<>>
                /\ legs1[Len(legs1)].destination # home
                /\ legs1[Len(legs1)].destination = legs2[1].origin
             THEN NIGHT_STOP_BONUS_MULTIPLIER * rate
             ELSE 0
    ELSE 0

\* has_midnight_symbol of _find_extra_diaria_days
DiariaSymbol(landing_time) ==
    \E i \in 1..Len(landing_time) : landing_time[i] \in {"sup1", "repl"}

\* has_midnight_symbol of _count_midnight_standby_days
MidnightSymbol(landing_time) ==
    \E i \in 1..Len(landing_time) : landing_time[i] \in {"sup1", "repl", "?"}

\* takeoff_hours = int(takeoff_str.split(':')[0]); raised is TRUE where int
\* raises ValueError, has_colon is FALSE where ':' is not in takeoff_str
TakeoffHours(takeoff_time) ==
    LET takeoff_str == KeepDigitsAndColons(takeoff_time) IN
    IF ~(\E i \in 1..Len(takeoff_str) : takeoff_str[i] = ":")
    THEN [has_colon |-> FALSE, raised |-> FALSE, hours |-> 0]
    ELSE LET h == Split(takeoff_str, ":")[1] IN
         IF h = <<>> THEN [has_colon |-> TRUE, raised |-> TRUE, hours |-> 0]
         ELSE [has_colon |-> TRUE, raised |-> FALSE, hours |-> StrToNat(h)]

\* the exception the try block of _find_extra_diaria_days raises on a pair
\* that passed the landing checks ("" when none): int() of the take-off hour
DiariaRaised(day1, day2) ==
    LET last_leg == LastLeg(day1.duty.legs)
        landing_time == Get(last_leg, "landingTime", <<>>)
        t == ParseLandingTime(landing_time)
        takeoff_time == Get(last_leg, "takeOffTime", <<>>)
        k == TakeoffHours(takeoff_time)
    IN  IF /\ Get(day1.duty, "type", <<>>) = s_Flight
           /\ Get(day1.duty, "legs", <<>>) # <<>>
           /\ landing_time # <<>>
           /\ t.ok
           /\ ~DiariaSymbol(landing_time)
           /\ t.hours < 12
           /\ takeoff_time # <<>>
           /\ k.has_colon
           /\ k.raised
        THEN "ValueError"
        ELSE ""

\* mutant: the except clause does not name ValueError
DiariaCaught_NoValueError == {"IndexError", "TypeError"}

\* `except (ValueError, IndexError, TypeError)` of _find_extra_diaria_days
DiariaCaught == {"ValueError", "IndexError", "TypeError"}

\* the exception the try block of _count_midnight_standby_days raises on a
\* pair ("" when none): int() of a landing part or of the take-off hour
MidnightRaised(day1, day2) ==
    LET last_leg == LastLeg(day1.duty.legs)
        landing_time == Get(last_leg, "landingTime", <<>>)
        main_time == KeepDigitsAndColons(Split(landing_time, "/")[1])
        time_parts == Split(main_time, ":")
        t == ParseLandingTime(landing_time)
        takeoff_time == Get(last_leg, "takeOffTime", <<>>)
        k == TakeoffHours(takeoff_time)
    IN  IF /\ Get(day1.duty, "type", <<>>) = s_Flight
           /\ Get(day1.duty, "legs", <<>>) # <<>>
           /\ Get(day2.duty, "type", <<>>) \in {s_Standby, s_Airport_Duty}
           /\ landing_time # <<>>
           /\ Len(time_parts) >= 2
           /\ \/ time_parts[1] = <<>>
              \/ time_parts[2] = <<>>
              \/ /\ t.ok
                 /\ ~MidnightSymbol(landing_time)
                 /\ t.hours <= 6
                 /\ takeoff_time # <<>>
                 /\ k.has_colon
                 /\ k.raised
        THEN "ValueError"
        ELSE ""

\* `except (ValueError, IndexError, TypeError)` of
\* _count_midnight_standby_days
MidnightCaught == {"ValueError", "IndexError", "TypeError"}

\* mutant: the window alone decides, without the Standby test
DiariaPair_AnyType(day1, day2) ==
    IF Get(day1.duty, "type", <<>>) = s_Flight
       /\ Get(day1.duty, "legs", <<>>) # <<>>
    THEN LET last_leg == LastLeg(day1.duty.legs)
             landing_time == Get(last_leg, "landingTime", <<>>)
             t == ParseLandingTime(landing_time)
         IN  IF landing_time = <<>> \/ ~t.ok THEN {}
             ELSE {day2.date}
    ELSE {}

\* body of the pair loop of _find_extra_diaria_days: the dates added
DiariaPair(day1, day2) ==
    IF Get(day1.duty, "type", <<>>) = s_Flight
       /\ Get(day1.duty, "legs", <<>>) # <<>>
    THEN LET last_leg == LastLeg(day1.duty.legs)
             landing_time == Get(last_leg, "landingTime", <<>>)
             t == ParseLandingTime(landing_time)
             takeoff_time == Get(last_leg, "takeOffTime", <<>>)
             k == TakeoffHours(takeoff_time)
             base == DateMinutes(day1.date) + t.hours * 60 + t.minutes
             \* the except clause: the pair is skipped
             raised == DiariaRaised(day1, day2) # ""
             crossing ==
                 IF DiariaSymbol(landing_time) THEN TRUE
                 ELSE IF t.hours < 12
                 THEN IF takeoff_time # <<>>
                      THEN k.has_colon /\ k.hours >= 18 /\ t.hours <= 6
                      ELSE t.hours <= 6
                 ELSE FALSE
             landing_datetime == base + (IF crossing THEN 1440 ELSE 0)
             time_diff_minutes == landing_datetime - DateMinutes(day2.date)
         IN  IF landing_time = <<>> \/ ~t.ok \/ raised THEN {}
             ELSE IF /\ -30 <= time_diff_minutes
                     /\ time_diff_minutes <= 480
                     /\ Get(day2.duty, "type", <<>>) = s_Standby
                  THEN {day2.date}
                  ELSE {}
    ELSE {}

\* mutant: an early-morning landing counts whatever the take-off
MidnightPair_EarlyLanding(day1, day2) ==
    IF /\ Get(day1.duty, "type", <<>>) = s_Flight
       /\ Get(day1.duty, "legs", <<>>) # <<>>
       /\ Get(day2.duty, "type", <<>>) \in {s_Standby, s_Airport_Duty}
    THEN LET last_leg == LastLeg(day1.duty.legs)
             landing_time == Get(last_leg, "landingTime", <<>>)
             t == ParseLandingTime(landing_time)
         IN  IF landing_time = <<>> \/ ~t.ok THEN {}
             ELSE IF MidnightSymbol(landing_time) \/ t.hours <= 6
                  THEN {day2.date}
                  ELSE {}
    ELSE {}

\* body of the pair loop of _count_midnight_standby_days: the dates counted
\* (at most one; midnight_days grows by one when it is not empty)
MidnightPair(day1, day2) ==
    IF /\ Get(day1.duty, "type", <<>>) = s_Flight
       /\ Get(day1.duty, "legs", <<>>) # <<>>
       /\ Get(day2.duty, "type", <<>>) \in {s_Standby, s_Airport_Duty}
    THEN LET last_leg == LastLeg(day1.duty.legs)
             landing_time == Get(last_leg, "landingTime", <<>>)
             t == ParseLandingTime(landing_time)
             takeoff_time == Get(last_leg, "takeOffTime", <<>>)
             k == TakeoffHours(takeoff_time)
             \* the except clause: the pair is skipped
             raised == MidnightRaised(day1, day2) # ""
             is_midnight_crossing ==
                 IF MidnightSymbol(landing_time) THEN TRUE
                 ELSE /\ t.hours <= 6
                      /\ takeoff_time # <<>>
                      /\ k.has_colon
                      /\ k.hours >= 18
         IN  IF landing_time = <<>> \/ raised \/ ~t.ok THEN {}
             ELSE IF is_midnight_crossing THEN {day2.date}
             ELSE {}
    ELSE {}

(***************************************************************************)
(* Specification SpecScan: the four day-pair scans, in the order           *)
(* calculate_salary runs them                                              *)
(***************************************************************************)
MaxScanDays == 3

t_2350 == <<"2", "3", ":", "5", "0">>
t_0200 == <<"0", "2", ":", "0", "0">>
t_0630 == <<"0", "6", ":", "3", "0">>
t_1900 == <<"1", "9", ":", "0", "0">>
t_1000 == <<"1", "0", ":", "0", "0">>
\* 11:15 followed by a question mark
t_1115_q == <<"1", "1", ":", "1", "5", "?">>
\* minutes and hours out of range
t_2570 == <<"2", "5", ":", "7", "0">>

ScanLeg(o, d, takeoff, landing) ==
    [flightNumber |-> s_EJU2551, origin |-> o, destination |-> d,
     isPositioning |-> FALSE, takeOffTime |-> takeoff, landingTime |-> landing]

ScanDuties ==
    { [type |-> s_Flight, legs |-> <<ScanLeg("MXP", "FCO", t_2200, t_2350)>>],
      [type |-> s_Flight, legs |-> <<ScanLeg("FCO", "MXP", t_2200, t_0155_marked)>>],
      [type |-> s_Flight, legs |-> <<ScanLeg("FCO", "LPA", t_1900, t_0200)>>],
      [type |-> s_Flight, legs |-> <<ScanLeg("MXP", "FCO", t_0500, t_0630)>>],
      [type |-> s_Flight, legs |-> <<ScanLeg("MXP", "FCO", t_2200, t_2570)>>],
      [type |-> s_Flight, legs |-> <<ScanLeg("LPA", "FCO", t_no_hours, t_0200)>>],
      [type |-> s_Flight, legs |-> <<ScanLeg("FCO", "MXP", t_1000, t_1115_q)>>],
      [type |-> s_Flight, legs |-> <<ScanLeg("MXP", "FCO", t_2200, t_no_hours)>>],
      [type |-> s_Flight,
       legs |-> <<[flightNumber |-> s_EJU2551, origin |-> "MXP",
                   destination |-> "LPA", isPositioning |-> FALSE,
                   landingTime |-> t_0630]>>],
      [type |-> s_Flight,
       legs |-> <<[flightNumber |-> s_EJU2551, origin |-> "MXP",
                   destination |-> "FCO", isPositioning |-> FALSE]>>],
      [type |-> s_Day_Off, description |-> s_Guaranteed_Day_Off, legs |-> <<>>],
      [type |-> s_Leave, description |-> s_Annual_leave, legs |-> <<>>],
      [type |-> s_Standby, description |-> s_MXP_Standby, legs |-> <<>>],
      [type |-> s_Airport_Duty, description |-> s_Airport_Duty, legs |-> <<>>,
       airport_duty_hours |-> 6, was_called |-> FALSE] }

\* the roster made of the duties ds, one per day from 30 January 2025 on
ScanSchedule(ds) ==
    [i \in 1..Len(ds) |-> [date |-> IdoDate(i, FALSE), duty |-> ds[i]]]

InitScan ==
    /\ svc = "up"
    /\ coordinates = TestCoordinates
    /\ csv = TestCsv
    /\ lastLookup = [code |-> "", raised |-> "", value |-> <<>>]
    /\ raisedCode = ""
    /\ added = EmptyDirectory
    /\ persisted0 = TestCoordinates
    /\ attempts = 0
    /\ \E n \in 0..MaxScanDays : \E ds \in [1..n -> ScanDuties] :
          dailySchedule = ScanSchedule(ds)
    /\ sector_value = FOSectorValue
    /\ sector_threshold = StandardThreshold
    /\ pc = "ido"
    /\ dayIdx = 1
    /\ schedule_list = <<>>
    /\ rowIdx = 0
    /\ operational_sectors_prev = 0
    /\ guadagno = <<>>
    /\ ido_value = FOIdoValue
    /\ idoIdx = 1
    /\ bonuses = <<>>
    /\ home_base \in {"MXP", "FCO"}
    /\ ProfileIdle
    /\ SalaryIdle
    /\ SectorIdle
    /\ TaxIdle
    /\ ParseIdle
    /\ scanIdx = 1
    /\ night_stop_bonus = 0
    /\ extra_days = {}
    /\ midnight_days = 0
    /\ midnight_standby_dates = {}

\* what the scans leave alone
scanFrame == <<airVars, earnVars, idoVars, profileVars, salaryVars, sectorVars,
               parseVars, taxVars>>

\* _calculate_night_stop_bonus is entered: bonus = 0
StartNightStop ==
    /\ pc = "ido_done"
    /\ pc' = "night"
    /\ scanIdx' = 1
    /\ night_stop_bonus' = 0
    /\ UNCHANGED <<airVars, dailySchedule, sector_value, sector_threshold,
                   calcLocals, idoVars, profileVars, salaryVars,
                   sectorVars, parseVars, taxVars, extra_days, midnight_days,
                   midnight_standby_dates>>

\* one iteration of the pair loop of _calculate_night_stop_bonus
NightStopStep ==
    /\ pc = "night"
    /\ scanIdx <= Len(dailySchedule) - 1
    /\ night_stop_bonus' =
          night_stop_bonus + NightStopPair(dailySchedule[scanIdx],
                                           dailySchedule[scanIdx + 1],
                                           home_base, sector_value)
    /\ scanIdx' = scanIdx + 1
    /\ UNCHANGED <<scanFrame, extra_days, midnight_days, midnight_standby_dates>>

\* `return bonus`
NightStopReturn ==
    /\ pc = "night"
    /\ scanIdx > Len(dailySchedule) - 1
    /\ pc' = "night_done"
    /\ UNCHANGED <<airVars, dailySchedule, sector_value, sector_threshold,
                   calcLocals, idoVars, laterVars>>

\* _find_extra_diaria_days is entered: extra_days = set()
StartExtraDiaria ==
    /\ pc = "night_done"
    /\ pc' = "diaria"
    /\ scanIdx' = 1
    /\ extra_days' = {}
    /\ UNCHANGED <<airVars, dailySchedule, sector_value, sector_threshold,
                   calcLocals, idoVars, profileVars, salaryVars,
                   sectorVars, parseVars, taxVars, night_stop_bonus,
                   midnight_days, midnight_standby_dates>>

\* one iteration of the pair loop of _find_extra_diaria_days; an exception
\* the except clause does not name leaves the function
DiariaStep ==
    /\ pc = "diaria"
    /\ scanIdx <= Len(dailySchedule) - 1
    /\ LET exc == DiariaRaised(dailySchedule[scanIdx],
                               dailySchedule[scanIdx + 1])
       IN  IF exc # "" /\ exc \notin DiariaCaught
           THEN /\ pc' = "raised"
                /\ UNCHANGED <<scanIdx, extra_days>>
           ELSE /\ pc' = pc
                /\ extra_days' =
                      extra_days \cup DiariaPair(dailySchedule[scanIdx],
                                                 dailySchedule[scanIdx + 1])
                /\ scanIdx' = scanIdx + 1
    /\ UNCHANGED <<airVars, dailySchedule, sector_value, sector_threshold,
                   calcLocals, idoVars, profileVars, salaryVars,
                   sectorVars, parseVars, taxVars, night_stop_bonus,
                   midnight_days, midnight_standby_dates>>

\* `return extra_days`
DiariaReturn ==
    /\ pc = "diaria"
    /\ scanIdx > Len(dailySchedule) - 1
    /\ pc' = "diaria_done"
    /\ UNCHANGED <<airVars, dailySchedule, sector_value, sector_threshold,
                   calcLocals, idoVars, laterVars>>

\* _count_midnight_standby_days is entered
StartMidnight ==
    /\ pc = "diaria_done"
    /\ pc' = "midnight"
    /\ scanIdx' = 1
    /\ midnight_days' = 0
    /\ midnight_standby_dates' = {}
    /\ UNCHANGED <<airVars, dailySchedule, sector_value, sector_threshold,
                   calcLocals, idoVars, profileVars, salaryVars,
                   sectorVars, parseVars, taxVars, night_stop_bonus,
                   extra_days>>

\* one iteration of the pair loop of _count_midnight_standby_days; an
\* exception the except clause does not name leaves the function
MidnightStep ==
    /\ pc = "midnight"
    /\ scanIdx <= Len(dailySchedule) - 1
    /\ LET exc == MidnightRaised(dailySchedule[scanIdx],
                                 dailySchedule[scanIdx + 1])
           found == MidnightPair(dailySchedule[scanIdx],
                                 dailySchedule[scanIdx + 1])
       IN  IF exc # "" /\ exc \notin MidnightCaught
           THEN /\ pc' = "raised"
                /\ UNCHANGED <<scanIdx, midnight_days, midnight_standby_dates>>
           ELSE /\ pc' = pc
                /\ midnight_days' = midnight_days + (IF found = {} THEN 0 ELSE 1)
                /\ midnight_standby_dates' = midnight_standby_dates \cup found
                /\ scanIdx' = scanIdx + 1
    /\ UNCHANGED <<airVars, dailySchedule, sector_value, sector_threshold,
                   calcLocals, idoVars, profileVars, salaryVars,
                   sectorVars, parseVars, taxVars, night_stop_bonus,
                   extra_days>>

\* `return midnight_days, midnight_standby_dates`
MidnightReturn ==
    /\ pc = "midnight"
    /\ scanIdx > Len(dailySchedule) - 1
    /\ pc' = "midnight_done"
    /\ UNCHANGED <<airVars, dailySchedule, sector_value, sector_threshold,
                   calcLocals, idoVars, laterVars>>

NextScan ==
    IdoPair \/ IdoReturn \/ StartNightStop \/ NightStopStep
    \/ NightStopReturn \/ StartExtraDiaria \/ DiariaStep \/ DiariaReturn
    \/ StartMidnight \/ MidnightStep \/ MidnightReturn

SpecScan == InitScan /\ [][NextScan]_vars

(***************************************************************************)
(* Claims on the day-pair scans (SpecScan)                                 *)
(***************************************************************************)
\* pair i is a Flight day whose last leg lands at 23:50, followed on the next
\* calendar day by a Day Off
LateLandingThenDayOff(i) ==
    /\ PairHasLanding(i)
    /\ dailySchedule[i].duty.legs[Len(dailySchedule[i].duty.legs)].landingTime
       = t_2350
    /\ dailySchedule[i + 1].duty.type = s_Day_Off
    /\ DateMinutes(dailySchedule[i + 1].date)
       = DateMinutes(dailySchedule[i].date) + 1440

\* C11 as claimed: a 23:50 landing followed by a Day Off yields a bonus of
\* the full IDO unit value.
C11_LateLandingPaysFull ==
    [][\A i \in 1..(Len(dailySchedule) - 1) :
          (IdoStep(i) /\ LateLandingThenDayOff(i))
          => /\ Len(bonuses') = Len(bonuses) + 1
             /\ bonuses'[Len(bonuses')].amount = ido_value]_vars

\* C11 amended: a 23:50 landing followed by a Day Off yields one bonus, dated
\* the flight day, of half the IDO unit value (the landing is 10 minutes
\* before the start of the Day Off, within the 90 minutes).
C11_LateLandingPaysHalf ==
    [][\A i \in 1..(Len(dailySchedule) - 1) :
          (IdoStep(i) /\ LateLandingThenDayOff(i))
          => /\ Len(bonuses') = Len(bonuses) + 1
             /\ bonuses'[Len(bonuses')].date = dailySchedule[i].date
             /\ 2 * bonuses'[Len(bonuses')].amount = ido_value]_vars

\* the scan is over and its first pair was a 23:50 landing before a Day Off
C11_Witness ==
    /\ pc = "ido_done"
    /\ Len(dailySchedule) >= 2
    /\ LateLandingThenDayOff(1)
    /\ Len(bonuses) >= 1
    /\ bonuses[1].date = dailySchedule[1].date
    /\ bonuses[1].amount = FOIdoValue \div 2

\* pair i is a night stop: two Flight days with legs, the first ending away
\* from the home base at the airport the second starts from
IsNightStop(i) ==
    LET d1 == dailySchedule[i].duty
        d2 == dailySchedule[i + 1].duty
    IN  /\ d1.type = s_Flight /\ d2.type = s_Flight
        /\ Len(d1.legs) >= 1 /\ Len(d2.legs) >= 1
        /\ d1.legs[Len(d1.legs)].destination # home_base
        /\ d1.legs[Len(d1.legs)].destination = d2.legs[1].origin

\* C12: the night-stop bonus is 2 * sector_value times the number of night
\* stop pairs, and only those pairs add to it.
C12_NightStopBonus ==
    /\ [](pc = "night_done" =>
            night_stop_bonus
            = 2 * sector_value
              * Cardinality({i \in 1..(Len(dailySchedule) - 1) : IsNightStop(i)}))
    /\ [][\A i \in 1..(Len(dailySchedule) - 1) :
            (pc = "night" /\ scanIdx = i /\ scanIdx' = i + 1 /\ ~IsNightStop(i))
            => night_stop_bonus' = night_stop_bonus]_vars

\* a roster with a night stop followed by a pair whose first day ends at the
\* home base, where the second day starts
C12_Witness ==
    /\ pc = "night_done"
    /\ Len(dailySchedule) = 3
    /\ IsNightStop(1) /\ ~IsNightStop(2)
    /\ dailySchedule[2].duty.type = s_Flight
    /\ dailySchedule[3].duty.type = s_Flight
    /\ dailySchedule[2].duty.legs[1].destination = home_base
    /\ dailySchedule[3].duty.legs[1].origin = home_base
    /\ night_stop_bonus = 2 * sector_value

\* the landing text and take-off text of the last leg of day[i]
LastLanding(i) ==
    LET legs == dailySchedule[i].duty.legs IN
    Get(legs[Len(legs)], "landingTime", <<>>)

LastTakeoff(i) ==
    LET legs == dailySchedule[i].duty.legs IN
    Get(legs[Len(legs)], "takeOffTime", <<>>)

\* day[i] is a Flight day that lands after midnight: the landing text carries
\* a midnight marker, or the take-off is in the evening (18:00 or later) and
\* the landing in the early morning (06:59 or earlier)
LandsAfterMidnight(i) ==
    /\ PairHasLanding(i)
    /\ \/ \E k \in 1..Len(LastLanding(i)) : LastLanding(i)[k] \in {"sup1", "repl"}
       \/ /\ LastTakeoff(i) # <<>>
          /\ TakeoffHours(LastTakeoff(i)).has_colon
          /\ ~TakeoffHours(LastTakeoff(i)).raised
          /\ TakeoffHours(LastTakeoff(i)).hours >= 18
          /\ ParseLandingTime(LastLanding(i)).hours <= 6

\* minutes from the start of day[i+1] to a landing that is after midnight,
\* that is on the calendar day after day[i]
MinutesAfterMidnight(i) ==
    DateMinutes(dailySchedule[i].date) + 1440
    + ParseLandingTime(LastLanding(i)).hours * 60
    + ParseLandingTime(LastLanding(i)).minutes
    - DateMinutes(dailySchedule[i + 1].date)

\* C13: every date in the extra-diaria set is a Standby day[i+1] whose
\* day[i] is a Flight day landing after midnight, between 30 minutes before
\* and 8 hours after the start of day[i+1]; a landing before midnight never
\* makes day[i+1] eligible.
C13_ExtraDiariaOnlyAfterMidnight ==
    pc = "diaria_done" =>
        \A date \in extra_days :
            \E i \in 1..(Len(dailySchedule) - 1) :
                /\ dailySchedule[i + 1].date = date
                /\ dailySchedule[i + 1].duty.type = s_Standby
                /\ LandsAfterMidnight(i)
                /\ -30 <= MinutesAfterMidnight(i)
                /\ MinutesAfterMidnight(i) <= 480

\* minutes from the start of day[i+1] to a landing on day[i] itself
MinutesSameDay(i) == MinutesAfterMidnight(i) - 1440

\* an early-morning landing (06:59 or earlier) of a leg without take-off time
EarlyLandingNoTakeoff(i) ==
    /\ PairHasLanding(i)
    /\ LastTakeoff(i) = <<>>
    /\ ParseLandingTime(LastLanding(i)).hours <= 6

\* C13 amended: every date in the extra-diaria set is a Standby day[i+1]
\* whose day[i] is a Flight day with a landing between 30 minutes before and
\* 8 hours after the start of day[i+1], the landing being on the day after
\* day[i] when it is after midnight (marker, evening take-off with
\* early-morning landing, or early-morning landing without take-off time) and
\* on day[i] otherwise; a landing in the last 30 minutes of day[i] does make a
\* Standby day[i+1] eligible.
C13_ExtraDiariaWindow ==
    /\ [](pc = "diaria_done" =>
            \A date \in extra_days :
                \E i \in 1..(Len(dailySchedule) - 1) :
                    /\ dailySchedule[i + 1].date = date
                    /\ dailySchedule[i + 1].duty.type = s_Standby
                    /\ PairHasLanding(i)
                    /\ IF LandsAfterMidnight(i) \/ EarlyLandingNoTakeoff(i)
                       THEN /\ -30 <= MinutesAfterMidnight(i)
                            /\ MinutesAfterMidnight(i) <= 480
                       ELSE /\ -30 <= MinutesSameDay(i)
                            /\ MinutesSameDay(i) <= 480)
    /\ [][\A i \in 1..(Len(dailySchedule) - 1) :
            (/\ pc = "diaria" /\ scanIdx = i /\ scanIdx' = i + 1
             /\ PairHasLanding(i)
             /\ ~LandsAfterMidnight(i)
             /\ ParseLandingTime(LastLanding(i)).hours = 23
             /\ -30 <= MinutesSameDay(i)
             /\ dailySchedule[i + 1].duty.type = s_Standby)
            => dailySchedule[i + 1].date \in extra_days']_vars

\* the scan put a Standby day in the set for a 23:50 landing the day before
C13_Witness ==
    /\ pc = "diaria_done"
    /\ Len(dailySchedule) >= 2
    /\ PairHasLanding(1)
    /\ LastLanding(1) = t_2350
    /\ dailySchedule[2].duty.type = s_Standby
    /\ extra_days = {dailySchedule[2].date}

\* time texts that are not a time of day: hour and minute out of range, no
\* hour, no colon
MalformedTimes == {t_2570, t_no_hours, t_no_colon}

LandingMalformed(i) ==
    /\ dailySchedule[i].duty.type = s_Flight
    /\ dailySchedule[i].duty.legs # <<>>
    /\ LastLanding(i) \in MalformedTimes

TakeoffMalformed(i) ==
    /\ dailySchedule[i].duty.type = s_Flight
    /\ dailySchedule[i].duty.legs # <<>>
    /\ LastTakeoff(i) \in MalformedTimes

\* the landing of pair i is an unmarked one at 06:59 or earlier, the case in
\* which the extra-diaria and the midnight-standby scans read the take-off
UnmarkedEarlyLanding(i) ==
    /\ PairHasLanding(i)
    /\ ~MidnightSymbol(LastLanding(i))
    /\ ParseLandingTime(LastLanding(i)).hours <= 6

Pairs == 1..(Len(dailySchedule) - 1)

ScanStep(name, i) == pc = name /\ scanIdx = i /\ scanIdx' = i + 1

\* C14 as claimed: in each scan a pair with a malformed landing or take-off
\* text contributes nothing, and no scan is aborted.
C14_MalformedPairSkipped ==
    /\ [](pc # "raised")
    /\ [][\A i \in Pairs :
            (LandingMalformed(i) \/ TakeoffMalformed(i))
            => /\ IdoStep(i) => bonuses' = bonuses
               /\ ScanStep("diaria", i) => extra_days' = extra_days
               /\ ScanStep("midnight", i) =>
                     /\ midnight_days' = midnight_days
                     /\ midnight_standby_dates' = midnight_standby_dates]_vars

\* the pairs a scan cannot read: malformed landing, or (not for the
\* rest-violation scan, which never reads the take-off) malformed take-off
\* of an unmarked early landing
Unreadable(name, i) ==
    \/ LandingMalformed(i)
    \/ name # "ido" /\ TakeoffMalformed(i) /\ UnmarkedEarlyLanding(i)

\* the bonuses of the pairs 1..i the rest-violation scan can read
RECURSIVE ReadableBonuses(_)
ReadableBonuses(i) ==
    IF i = 0 THEN <<>>
    ELSE ReadableBonuses(i - 1)
         \o (IF Unreadable("ido", i) THEN <<>>
             ELSE PairBonuses(dailySchedule[i], dailySchedule[i + 1], ido_value))

\* C14 amended: in each scan a pair whose landing text is malformed, or, in
\* the extra-diaria and midnight-standby scans, whose take-off text is
\* malformed where the scan reads it, contributes nothing; no scan is
\* aborted, every pair is examined and the results are those of the other
\* pairs alone.
C14_UnreadablePairSkipped ==
    /\ [](pc # "raised")
    /\ [][\A i \in Pairs :
            /\ (IdoStep(i) /\ Unreadable("ido", i)) => bonuses' = bonuses
            /\ (ScanStep("diaria", i) /\ Unreadable("diaria", i))
                  => extra_days' = extra_days
            /\ (ScanStep("midnight", i) /\ Unreadable("midnight", i))
                  => /\ midnight_days' = midnight_days
                     /\ midnight_standby_dates' = midnight_standby_dates]_vars
    /\ [](pc = "ido_done" =>
            /\ idoIdx > Len(dailySchedule) - 1
            /\ bonuses = ReadableBonuses(Len(dailySchedule) - 1
                                         + (IF dailySchedule = <<>> THEN 1 ELSE 0)))
    /\ [](pc = "diaria_done" =>
            /\ scanIdx > Len(dailySchedule) - 1
            /\ extra_days
               = UNION {DiariaPair(dailySchedule[i], dailySchedule[i + 1]) :
                          i \in {j \in Pairs : ~Unreadable("diaria", j)}})
    /\ [](pc = "midnight_done" =>
            /\ scanIdx > Len(dailySchedule) - 1
            /\ midnight_standby_dates
               = UNION {MidnightPair(dailySchedule[i], dailySchedule[i + 1]) :
                          i \in {j \in Pairs : ~Unreadable("midnight", j)}}
            /\ midnight_days
               = Cardinality({j \in Pairs :
                     /\ ~Unreadable("midnight", j)
                     /\ MidnightPair(dailySchedule[j], dailySchedule[j + 1]) # {}}))

\* the scans are over; the first pair had a landing text of 25:70, the
\* second pair gave a bonus, an extra-diaria date and a midnight-standby day
C14_Witness ==
    /\ pc = "midnight_done"
    /\ Len(dailySchedule) = 3
    /\ LandingMalformed(1)
    /\ LastLanding(1) = t_2570
    /\ Len(bonuses) = 1
    /\ bonuses[1].date = dailySchedule[2].date
    /\ extra_days = {dailySchedule[3].date}
    /\ midnight_days = 1

(***************************************************************************)
(* Specification SpecSector: one call of _assign_sector_value.             *)
(* Distances are hundredths of a NM, so that distances under 0.1 NM and    *)
(* distances just off a band limit exist.                                  *)
(***************************************************************************)
MaxDistanceSteps == 64

\* every hundredth from -0.05 to 0.15 NM, and every 25 NM up to 1600 NM
\* with the hundredth before and after
SectorDistances ==
    (-5..15) \cup {k * 2500 + j : k \in 0..MaxDistanceSteps, j \in {-1, 0, 1}}

\* no service call is in progress and no roster is loaded
CalcIdle ==
    /\ svc = "up"
    /\ coordinates = TestCoordinates
    /\ csv = TestCsv
    /\ lastLookup = [code |-> "", raised |-> "", value |-> <<>>]
    /\ raisedCode = ""
    /\ added = EmptyDirectory
    /\ persisted0 = TestCoordinates
    /\ attempts = 0
    /\ dailySchedule = <<>>
    /\ sector_value = FOSectorValue
    /\ sector_threshold = StandardThreshold
    /\ dayIdx = 1
    /\ schedule_list = <<>>
    /\ rowIdx = 0
    /\ operational_sectors_prev = 0
    /\ guadagno = <<>>
    /\ ido_value = FOIdoValue
    /\ idoIdx = 1
    /\ bonuses = <<>>

ScanIdle ==
    /\ home_base = "MXP"
    /\ scanIdx = 1
    /\ night_stop_bonus = 0
    /\ extra_days = {}
    /\ midnight_days = 0
    /\ midnight_standby_dates = {}

InitSector ==
    /\ CalcIdle
    /\ ScanIdle
    /\ ProfileIdle
    /\ SalaryIdle
    /\ ParseIdle
    /\ TaxIdle
    /\ pc = "assign"
    /\ arg_distance \in SectorDistances
    /\ ret_sectors = 0

\* `sectors = self._assign_sector_value(distance)`
AssignSectorValue ==
    /\ pc = "assign"
    /\ ret_sectors' = _assign_sector_value(arg_distance, 100)
    /\ pc' = "assigned"
    /\ UNCHANGED <<airVars, dailySchedule, sector_value, sector_threshold,
                   calcLocals, idoVars, profileVars, scanVars, salaryVars,
                   arg_distance, parseVars, taxVars>>

NextSector == AssignSectorValue

SpecSector == InitSector /\ [][NextSector]_vars

\* C17: _assign_sector_value returns 0 exactly for distances under 0.1 NM,
\* 0.8 from 0.1 to 400 NM, 1.2 above 400 up to 1000, 1.5 above 1000 up to
\* 1500 and 2.5 above 1500, and never less for a longer distance.
C17_SectorBands ==
    pc = "assigned" =>
        /\ ret_sectors = 0 <=> arg_distance < 10
        /\ (10 <= arg_distance /\ arg_distance <= 40000) => ret_sectors = 8
        /\ (40000 < arg_distance /\ arg_distance <= 100000) => ret_sectors = 12
        /\ (100000 < arg_distance /\ arg_distance <= 150000) => ret_sectors = 15
        /\ 150000 < arg_distance => ret_sectors = 25
        /\ \A shorter \in SectorDistances :
              shorter <= arg_distance
              => _assign_sector_value(shorter, 100) <= ret_sectors

\* a distance of 400.01 NM was valued 1.2 sectors
C17_Witness ==
    /\ pc = "assigned"
    /\ arg_distance = 40001
    /\ ret_sectors = 12

(***************************************************************************)
(* RosterParser.parse_roster_text.  The text is a sequence of characters;  *)
(* the line feed is the character "LF".                                    *)
(***************************************************************************)
Whitespace == {" ", "LF", "TAB"}

WordChars ==
    DigitSet \cup {UpperCase[i] : i \in 1..26} \cup {LowerCase[i] : i \in 1..26}
    \cup {"_"}

\* str.lstrip()
RECURSIVE LStrip(_)
LStrip(s) ==
    IF s # <<>> /\ s[1] \in Whitespace THEN LStrip(Tail(s)) ELSE s

\* str.rstrip()
RECURSIVE RStrip(_)
RStrip(s) ==
    IF s # <<>> /\ s[Len(s)] \in Whitespace
    THEN RStrip(SubSeq(s, 1, Len(s) - 1)) ELSE s

\* str.strip()
Strip(s) == RStrip(LStrip(s))

\* '\n'.join(lines)
RECURSIVE JoinLines(_)
JoinLines(ls) ==
    IF ls = <<>> THEN <<>>
    ELSE IF Len(ls) = 1 THEN ls[1]
    ELSE ls[1] \o <<"LF">> \o JoinLines(Tail(ls))

\* re.compile(r"^\d{2}/\d{2}/\d{4}") matches at the start of the line
DayPatternMatches(line) ==
    /\ Len(line) >= 10
    /\ \A i \in {1, 2, 4, 5, 7, 8, 9, 10} : line[i] \in DigitSet
    /\ line[3] = "/" /\ line[6] = "/"

\* r"^(\d{2}/\d{2}/\d{4})\s+(\w+)": the date, white space, a word
DayMatch(line) ==
    LET rest == IF Len(line) > 10 THEN SubSeq(line, 11, Len(line)) ELSE <<>>
        after == LStrip(rest)
        word_end == IF \A i \in 1..Len(after) : after[i] \in WordChars
                    THEN Len(after)
                    ELSE (CHOOSE i \in 1..Len(after) :
                            /\ after[i] \notin WordChars
                            /\ \A j \in 1..(i - 1) : after[j] \in WordChars) - 1
    IN  IF DayPatternMatches(line) /\ rest # <<>> /\ rest[1] \in Whitespace
           /\ after # <<>> /\ after[1] \in WordChars
        THEN [matched |-> TRUE, date_text |-> SubSeq(line, 1, 10),
              dayOfWeek |-> SubSeq(after, 1, word_end)]
        ELSE [matched |-> FALSE, date_text |-> <<>>, dayOfWeek |-> <<>>]

IsLeapYear(y) == y % 4 = 0 /\ (y % 100 # 0 \/ y % 400 = 0)

DaysInMonth(y, m) == IF m = 2 /\ IsLeapYear(y) THEN 29 ELSE MonthDays[m]

\* datetime.strptime(text, '%d/%m/%Y'): ok is FALSE where it raises ValueError
StrptimeDMY(text) ==
    LET d == StrToNat(SubSeq(text, 1, 2))
        m == StrToNat(SubSeq(text, 4, 5))
        y == StrToNat(SubSeq(text, 7, 10))
    IN  IF y >= 1 /\ 1 <= m /\ m <= 12 /\ 1 <= d /\ d <= DaysInMonth(y, m)
        THEN [ok |-> TRUE, date |-> [y |-> y, m |-> m, d |-> d]]
        ELSE [ok |-> FALSE, date |-> [y |-> 0, m |-> 0, d |-> 0]]

(***************************************************************************)
(* RosterParser._process_day_block and what it calls.  The regular         *)
(* expressions are matched as re matches them: leftmost, each quantifier   *)
(* greedy, giving back characters only where the rest of the pattern can   *)
(* then match.                                                             *)
(***************************************************************************)
UpperSet == {UpperCase[i] : i \in 1..26}

\* the character at index i, "" outside the string
At(s, i) == IF i >= 1 /\ i <= Len(s) THEN s[i] ELSE ""

\* the index after the longest run of characters of set from index i on
RECURSIVE RunEnd(_, _, _)
RunEnd(s, i, set) ==
    IF At(s, i) \in set THEN RunEnd(s, i + 1, set) ELSE i

\* the index after the longest run of characters outside set from i on
RECURSIVE RunEndNot(_, _, _)
RunEndNot(s, i, set) ==
    IF i <= Len(s) /\ s[i] \notin set THEN RunEndNot(s, i + 1, set) ELSE i

\* \s*
SkipWs(s, i) == RunEnd(s, i, Whitespace)

\* \d{2}:\d{2} at index i
IsTimeAt(s, i) ==
    /\ \A j \in {i, i + 1, i + 3, i + 4} : At(s, j) \in DigitSet
    /\ At(s, i + 2) = ":"

\* [A-Z]{3} at index i
IsCodeAt(s, i) == \A j \in {i, i + 1, i + 2} : At(s, j) \in UpperSet

NoMatch == [matched |-> FALSE]

\* the rest of time_pattern after the first time text, which ends before
\* index e: \s*-\s*(A?)(\d{2}:\d{2}[^\s]*)
TimeTail(s, e) ==
    LET dash == SkipWs(s, e)
        a2 == SkipWs(s, dash + 1)
        t2 == IF At(s, a2) = "A" THEN a2 + 1 ELSE a2
    IN  IF At(s, dash) = "-" /\ IsTimeAt(s, t2)
        THEN [matched |-> TRUE, a |-> At(s, a2) = "A",
              time |-> SubSeq(s, t2, RunEndNot(s, t2 + 5, Whitespace) - 1),
              end |-> RunEndNot(s, t2 + 5, Whitespace)]
        ELSE NoMatch

\* time_pattern (A?)(\d{2}:\d{2}[^\s]*)\s*-\s*(A?)(\d{2}:\d{2}[^\s]*) matched
\* at index p: the first [^\s]* takes the most characters that leave a match
TimeMatchAt(s, p) ==
    LET t1 == IF At(s, p) = "A" THEN p + 1 ELSE p
        ends == {e \in (t1 + 5)..RunEndNot(s, t1 + 5, Whitespace) :
                    TimeTail(s, e).matched}
    IN  IF IsTimeAt(s, t1) /\ ends # {}
        THEN LET e == CHOOSE x \in ends : \A y \in ends : y <= x
                 tail == TimeTail(s, e)
             IN  [matched |-> TRUE,
                  groups |-> [a1 |-> At(s, p) = "A",
                              takeOffTime |-> SubSeq(s, t1, e - 1),
                              a2 |-> tail.a,
                              landingTime |-> tail.time],
                  end |-> tail.end]
        ELSE NoMatch

\* time_pattern.findall(line) from index p on
RECURSIVE TimeFindall(_, _)
TimeFindall(s, p) ==
    IF p > Len(s) THEN <<>>
    ELSE CHOOSE found \in
            {IF m.matched THEN <<m.groups>> \o TimeFindall(s, m.end)
             ELSE TimeFindall(s, p + 1) : m \in {TimeMatchAt(s, p)}} : TRUE

\* the rest of leg_pattern after the flight number, which ends before index
\* e: \s*(?:\[(\w+)\])?\s*(\*?)\s*([A-Z]{3})\s*-\s*([A-Z]{3})
LegTail(s, e) ==
    LET b == SkipWs(s, e)
        w == RunEnd(s, b + 1, WordChars)
        bracket == At(s, b) = "[" /\ w > b + 1 /\ At(s, w) = "]"
        star == SkipWs(s, IF bracket THEN w + 1 ELSE b)
        o == SkipWs(s, IF At(s, star) = "*" THEN star + 1 ELSE star)
        dash == SkipWs(s, o + 3)
        d == SkipWs(s, dash + 1)
    IN  IF IsCodeAt(s, o) /\ At(s, dash) = "-" /\ IsCodeAt(s, d)
        THEN [matched |-> TRUE,
              aircraft |-> IF bracket THEN SubSeq(s, b + 1, w - 1) ELSE <<>>,
              star |-> At(s, star) = "*",
              origin |-> SubSeq(s, o, o + 2),
              destination |-> SubSeq(s, d, d + 2),
              end |-> d + 3]
        ELSE NoMatch

\* leg_pattern matched at index p: [A-Z0-9]+ takes the most characters that
\* leave a match
LegMatchAt(s, p) ==
    LET ends == {e \in (p + 1)..RunEnd(s, p, UpperSet \cup DigitSet) :
                    LegTail(s, e).matched}
    IN  IF ends # {}
        THEN LET e == CHOOSE x \in ends : \A y \in ends : y <= x
                 tail == LegTail(s, e)
             IN  [matched |-> TRUE,
                  groups |-> [flightNumber |-> SubSeq(s, p, e - 1),
                              aircraft |-> tail.aircraft,
                              star |-> tail.star,
                              origin |-> tail.origin,
                              destination |-> tail.destination],
                  end |-> tail.end]
        ELSE NoMatch

\* leg_pattern.findall(line) from index p on
RECURSIVE LegFindall(_, _)
LegFindall(s, p) ==
    IF p > Len(s) THEN <<>>
    ELSE CHOOSE found \in
            {IF m.matched THEN <<m.groups>> \o LegFindall(s, m.end)
             ELSE LegFindall(s, p + 1) : m \in {LegMatchAt(s, p)}} : TRUE

\* line.strip().startswith(('CP ', 'FO ', 'FA ', 'PU '))
IsCrewLine(line) ==
    \E prefix \in {<<"C", "P", " ">>, <<"F", "O", " ">>, <<"F", "A", " ">>,
                   <<"P", "U", " ">>} : StartsWith(Strip(line), prefix)

\* mutant: every leg takes the first time match of its line
LegTimeIndex_First(i) == 1

\* the time match a leg is paired with: time_matches[i] for leg i
LegTimeIndex(i) == i

\* the leg built from leg match i of a line; the aircraft is <<>> for None
LegOf(leg_matches, time_matches, i) ==
    LET leg_match == leg_matches[i]
        leg == [flightNumber |-> leg_match.flightNumber,
                aircraft |-> leg_match.aircraft,
                origin |-> leg_match.origin,
                destination |-> leg_match.destination,
                isPositioning |-> leg_match.star
                                  \/ StartsWith(leg_match.flightNumber, s_TAXI),
                hasActualTimes |-> FALSE]
    IN  IF i <= Len(time_matches)
        THEN LET time_match == time_matches[LegTimeIndex(i)] IN
             [leg EXCEPT !.hasActualTimes = time_match.a1 \/ time_match.a2]
             @@ [takeOffTime |-> time_match.takeOffTime,
                 landingTime |-> time_match.landingTime]
        ELSE leg

\* the legs of one line, in match order; none for a crew line
LineLegs(line) ==
    IF IsCrewLine(line) THEN <<>>
    ELSE CHOOSE legs \in
            {[i \in 1..Len(leg_matches) |->
                 LegOf(leg_matches, time_matches, i)] :
             leg_matches \in {LegFindall(line, 1)},
             time_matches \in {TimeFindall(line, 1)}} : TRUE

\* RosterParser._extract_flight_legs: the legs appended to the day
RECURSIVE _extract_flight_legs(_)
_extract_flight_legs(lines) ==
    IF lines = <<>> THEN <<>>
    ELSE LineLegs(lines[1]) \o _extract_flight_legs(Tail(lines))

s_PSBL == <<"P", "S", "B", "L">>
s_PSBE == <<"P", "S", "B", "E">>
s_ESBY == <<"E", "S", "B", "Y">>
s_ADTY == <<"A", "D", "T", "Y">>
s_CSBE == <<"C", "S", "B", "E">>
s_CSBL == <<"C", "S", "B", "L">>
s_GDO == <<"G", "D", "O">>
s_DO == <<"D", "/", "O">>
s_LVE == <<"L", "V", "E">>
s_M2D1 == <<"M", "2", "D", "1">>
s_LSBY == <<"L", "S", "B", "Y">>
s_REST == <<"R", "E", "S", "T">>
s_WDO == <<"W", "D", "/", "O">>
s_W_DO == <<"W", "/", "D", "O">>
s_SIMI == <<"S", "I", "M", "I">>
s_LTGI == <<"L", "T", "G", "I">>
s_EJU == <<"E", "J", "U">>
s_FR == <<"F", "R">>
s_OWN == <<"O", "W", "N">>
s_Unknown == <<"U", "n", "k", "n", "o", "w", "n">>
s_Gapfill_Standby_Late == <<"G", "a", "p", "f", "i", "l", "l", " ", "S", "t", "a", "n", "d", "b", "y", " ", "L", "a", "t", "e">>
s_Crewing_Standby == <<"C", "r", "e", "w", "i", "n", "g", " ", "S", "t", "a", "n", "d", "b", "y">>
s_Crewing_Standby_Late == <<"C", "r", "e", "w", "i", "n", "g", " ", "S", "t", "a", "n", "d", "b", "y", " ", "L", "a", "t", "e">>
s_Early_Standby == <<"E", "a", "r", "l", "y", " ", "S", "t", "a", "n", "d", "b", "y">>
s_Late_Standby == <<"L", "a", "t", "e", " ", "S", "t", "a", "n", "d", "b", "y">>
s_Day_off == <<"D", "a", "y", " ", "o", "f", "f">>
s_Weekly_Day_Off == <<"W", "e", "e", "k", "l", "y", " ", "D", "a", "y", " ", "O", "f", "f">>
s_Wrap_Around_Day_Off == <<"W", "r", "a", "p", " ", "A", "r", "o", "u", "n", "d", " ", "D", "a", "y", " ", "O", "f", "f">>
s_Module_2_Day_1 == <<"M", "o", "d", "u", "l", "e", " ", "2", " ", "D", "a", "y", " ", "1">>
s_Simulator_instructor == <<"S", "i", "m", "u", "l", "a", "t", "o", "r", " ", "i", "n", "s", "t", "r", "u", "c", "t", "o", "r">>

\* the alternatives of the duty-code pattern, in its order
DutyCodePattern ==
    <<s_PSBL, s_PSBE, s_ESBY, s_ADTY, s_CSBE, s_CSBL, s_GDO, s_DO, s_LVE, s_SIM,
      s_M2D1, s_LSBY, s_REST, s_WDO, s_SIMI, s_GS, s_LTGI>>

\* the text word stands at index i of s
TextAt(s, i, word) ==
    /\ i >= 1
    /\ i + Len(word) - 1 <= Len(s)
    /\ SubSeq(s, i, i + Len(word) - 1) = word

\* the alternatives that match at index i with (\s|$) after them
CodesAt(line, i) ==
    {k \in 1..Len(DutyCodePattern) :
        /\ TextAt(line, i, DutyCodePattern[k])
        /\ (i + Len(DutyCodePattern[k]) > Len(line)
            \/ At(line, i + Len(DutyCodePattern[k])) \in Whitespace)}

\* re.search(r'\s(PSBL|...|LTGI)(\s|$)', lines[0]).group(1), <<>> for no
\* match: the leftmost white space followed by a code, the first alternative
\* that matches there
DutyCodeMatch(line) ==
    LET starts == {i \in 1..Len(line) :
                      line[i] \in Whitespace /\ CodesAt(line, i + 1) # {}}
    IN  IF starts = {} THEN <<>>
        ELSE LET i == CHOOSE x \in starts : \A y \in starts : x <= y
                 k == CHOOSE x \in CodesAt(line, i + 1) :
                         \A y \in CodesAt(line, i + 1) : x <= y
             IN  DutyCodePattern[k]

\* re.search(r'\s\d{4}\s', day_text)
HasFourDigits(day_text) ==
    \E i \in 1..Len(day_text) :
        /\ day_text[i] \in Whitespace
        /\ \A j \in (i + 1)..(i + 4) : At(day_text, j) \in DigitSet
        /\ At(day_text, i + 5) \in Whitespace

\* is_flight_day
IsFlightDay(day_text) ==
    \/ Contains(day_text, s_EJU)
    \/ Contains(day_text, s_FR)
    \/ HasFourDigits(day_text)
    \/ Contains(day_text, s_TAXI)
    \/ Contains(day_text, s_OWN)

standby_descriptions ==
    (s_PSBE :> s_MXP_Standby) @@ (s_ESBY :> s_Early_Standby)
    @@ (s_ADTY :> s_Airport_Duty) @@ (s_LSBY :> s_Late_Standby)

standby_codes ==
    (s_PSBL :> <<s_Standby, s_Gapfill_Standby_Late>>)
    @@ (s_PSBE :> <<s_Standby, s_MXP_Standby>>)
    @@ (s_ADTY :> <<s_Airport_Duty, s_Airport_Duty>>)
    @@ (s_CSBE :> <<s_Standby, s_Crewing_Standby>>)
    @@ (s_CSBL :> <<s_Standby, s_Crewing_Standby_Late>>)
    @@ (s_ESBY :> <<s_Standby, s_Early_Standby>>)
    @@ (s_LSBY :> <<s_Standby, s_Late_Standby>>)

day_off_codes ==
    (s_GDO :> <<s_Day_Off, s_Guaranteed_Day_Off>>)
    @@ (s_DO :> <<s_Day_Off, s_Day_off>>)
    @@ (s_W_DO :> <<s_Day_Off, s_Weekly_Day_Off>>)
    @@ (s_WDO :> <<s_Day_Off, s_Wrap_Around_Day_Off>>)

rest_day_codes == (s_REST :> <<s_Rest_Day, s_Rest_Day>>)

training_codes ==
    (s_LVE :> <<s_Leave, s_Annual_leave>>)
    @@ (s_SIM :> <<s_Training, s_Simulator>>)
    @@ (s_M2D1 :> <<s_Training, s_Module_2_Day_1>>)
    @@ (s_SIMI :> <<s_Training, s_Simulator_instructor>>)
    @@ (s_GS :> <<s_Training, s_Ground_School>>)
    @@ (s_LTGI :> <<s_Training, s_Pre_Line>>)

\* the (type, description) pair _process_non_flight_duty assigns
DutyTypeAndDescription(duty_code) ==
    IF duty_code \in DOMAIN standby_codes THEN standby_codes[duty_code]
    ELSE IF duty_code \in DOMAIN day_off_codes THEN day_off_codes[duty_code]
    ELSE IF duty_code \in DOMAIN rest_day_codes THEN rest_day_codes[duty_code]
    ELSE IF duty_code \in DOMAIN training_codes THEN training_codes[duty_code]
    ELSE <<s_Unknown, duty_code>>

\* HH:MM as minutes
ClockMinutes(t) == StrToNat(SubSeq(t, 1, 2)) * 60 + StrToNat(SubSeq(t, 4, 5))

\* (\d{2}:\d{2})\s*-\s*(\d{2}:\d{2}) at index p: the index of the second time,
\* 0 for no match
TimeRangeAt(s, p) ==
    LET dash == SkipWs(s, p + 5)
        second == SkipWs(s, dash + 1)
    IN  IF IsTimeAt(s, p) /\ At(s, dash) = "-" /\ IsTimeAt(s, second)
        THEN second ELSE 0

\* RosterParser._parse_airport_duty_times: airport_duty_hours in minutes
_parse_airport_duty_times(day_text) ==
    LET starts == {p \in 1..Len(day_text) : TimeRangeAt(day_text, p) # 0} IN
    IF starts = {} THEN 360
    ELSE LET p == CHOOSE x \in starts : \A y \in starts : x <= y
             start_minutes == ClockMinutes(SubSeq(day_text, p, p + 4))
             q == TimeRangeAt(day_text, p)
             end_minutes == ClockMinutes(SubSeq(day_text, q, q + 4))
         IN  IF end_minutes <= start_minutes
             THEN end_minutes + 24 * 60 - start_minutes
             ELSE end_minutes - start_minutes

\* RosterParser._process_non_flight_duty: the fields added to the duty
_process_non_flight_duty(day_text, duty_code) ==
    LET pair == DutyTypeAndDescription(duty_code)
        duty == [type |-> pair[1], description |-> pair[2]]
    IN  IF duty_code = s_ADTY
        THEN duty @@ [airport_duty_hours |-> _parse_airport_duty_times(day_text),
                      was_called |-> FALSE]
        ELSE duty

\* re.search(r'\bword\b', day_text) for a word that starts and ends with a
\* word character
HasWord(day_text, word) ==
    \E i \in 1..Len(day_text) :
        /\ TextAt(day_text, i, word)
        /\ At(day_text, i - 1) \notin WordChars
        /\ At(day_text, i + Len(word)) \notin WordChars

\* RosterParser._extract_training_duties
_extract_training_duties(day_text) ==
    (IF HasWord(day_text, s_GS)
     THEN <<[type |-> s_GS, description |-> s_Ground_School, sectors |-> 40]>>
     ELSE <<>>)
    \o (IF HasWord(day_text, s_LTGI)
        THEN <<[type |-> s_LTGI, description |-> s_Pre_Line, sectors |-> 40]>>
        ELSE <<>>)

\* the duty of the day: type, description or initialDuty, legs and training
\* duties
DutyOf(lines) ==
    LET day_text == JoinLines(lines)
        initial_duty_code == DutyCodeMatch(lines[1])
        typed ==
            IF IsFlightDay(day_text)
            THEN IF initial_duty_code # <<>>
                 THEN [type |-> s_Flight,
                       initialDuty |->
                           Get(standby_descriptions, initial_duty_code,
                               initial_duty_code)]
                 ELSE [type |-> s_Flight]
            ELSE IF initial_duty_code # <<>>
            THEN _process_non_flight_duty(day_text, initial_duty_code)
            ELSE [type |-> s_Unknown]
    IN  typed @@ [legs |-> _extract_flight_legs(lines),
                  training_duties |-> _extract_training_duties(day_text)]

\* _process_day_block: <<>> for None, else the one day
_process_day_block(block) ==
    IF block = <<>> THEN <<>>
    ELSE LET day_match == DayMatch(block[1]) IN
         IF ~day_match.matched THEN <<>>
         ELSE LET date_obj == StrptimeDMY(day_match.date_text) IN
              IF ~date_obj.ok THEN <<>>
              ELSE << [date |-> date_obj.date,
                       dayOfWeek |-> day_match.dayOfWeek,
                       duty |-> DutyOf(block),
                       raw_text |-> JoinLines(block)] >>

s_Total_Hours == <<"T", "o", "t", "a", "l", " ", "H", "o", "u", "r", "s", " ", "a", "n", "d", " ", "S", "t", "a", "t", "i", "s", "t", "i", "c", "s">>

e_Empty_roster == <<"E", "m", "p", "t", "y", " ", "r", "o", "s", "t", "e", "r", " ", "c", "o", "n", "t", "e", "n", "t">>

e_No_valid_date == <<"N", "o", " ", "v", "a", "l", "i", "d", " ", "d", "a", "t", "e", " ", "e", "n", "t", "r", "i", "e", "s", " ", "f", "o", "u", "n", "d", " ", "i", "n", " ", "r", "o", "s", "t", "e", "r">>

e_No_valid_schedule == <<"N", "o", " ", "v", "a", "l", "i", "d", " ", "s", "c", "h", "e", "d", "u", "l", "e", " ", "d", "a", "t", "a", " ", "f", "o", "u", "n", "d">>

ParseRaised(message) ==
    [returned |-> FALSE, raised |-> "ValueError", message |-> message,
     dailySchedule |-> <<>>]

\* mutant: the schedule is returned whatever it holds
ParseOutcome_NoCheck(days) ==
    [returned |-> TRUE, raised |-> "", message |-> <<>>, dailySchedule |-> days]

\* `if not data["dailySchedule"]: raise ValueError(...)`, else `return data`
ParseOutcome(days) ==
    IF days = <<>> THEN ParseRaised(e_No_valid_schedule)
    ELSE [returned |-> TRUE, raised |-> "", message |-> <<>>,
          dailySchedule |-> days]

(***************************************************************************)
(* Specification SpecParse: one call of parse_roster_text on a text of up  *)
(* to MaxLines lines.                                                      *)
(***************************************************************************)
MaxLines == 3

RosterLines ==
    { <<"0", "1", "/", "0", "3", "/", "2", "0", "2", "5", " ", "S", "a", "t", " ", "D", "/", "O">>,
      <<"2", "9", "/", "0", "2", "/", "2", "0", "2", "4", " ", "T", "h", "u", " ", "L", "V", "E">>,
      <<"3", "1", "/", "0", "2", "/", "2", "0", "2", "5", " ", "M", "o", "n", " ", "D", "/", "O">>,
      <<"0", "3", "/", "0", "3", "/", "2", "0", "2", "5">>,
      <<" ", "0", "4", "/", "0", "3", "/", "2", "0", "2", "5", " ", "T", "u", "e">>,
      <<>>,
      <<" ">>,
      <<" ", "T", "o", "t", "a", "l", " ", "H", "o", "u", "r", "s", " ", "a", "n", "d", " ", "S", "t", "a", "t", "i", "s", "t", "i", "c", "s">>,
      <<"M", "X", "P">> }

InitParse ==
    /\ CalcIdle
    /\ ScanIdle
    /\ ProfileIdle
    /\ SalaryIdle
    /\ SectorIdle
    /\ TaxIdle
    /\ pc = "parse"
    /\ \E n \in 0..MaxLines : \E ls \in [1..n -> RosterLines] :
          content = JoinLines(ls)
    /\ parse_lines = <<>>
    /\ parse_idx = 1
    /\ current_day_lines = <<>>
    /\ parsed_days = <<>>
    /\ parse_result = NotParsed

parseFrame == <<airVars, dailySchedule, sector_value, sector_threshold,
                calcLocals, idoVars, profileVars, scanVars, salaryVars,
                sectorVars, taxVars>>

\* the indices of the lines the pattern finds
AnchorLines(ls) == {i \in 1..Len(ls) : DayPatternMatches(ls[i])}

\* parse_roster_text up to the loop: the two early errors, or the lines and
\* schedule_start
ParseStart ==
    /\ pc = "parse"
    /\ IF Strip(content) = <<>>
       THEN /\ parse_result' = ParseRaised(e_Empty_roster)
            /\ pc' = "parsed"
            /\ UNCHANGED <<parse_lines, parse_idx>>
       ELSE LET lines == Split(Strip(content), "LF") IN
            IF AnchorLines(lines) = {}
            THEN /\ parse_result' = ParseRaised(e_No_valid_date)
                 /\ pc' = "parsed"
                 /\ UNCHANGED <<parse_lines, parse_idx>>
            ELSE /\ parse_lines' = lines
                 /\ parse_idx' = CHOOSE i \in AnchorLines(lines) :
                                    \A j \in AnchorLines(lines) : i <= j
                 /\ pc' = "parse_loop"
                 /\ UNCHANGED parse_result
    /\ UNCHANGED <<parseFrame, content, current_day_lines, parsed_days>>

\* the loop leaves at the end of the lines or at the statistics line
LoopEnds ==
    IF parse_idx > Len(parse_lines) THEN TRUE
    ELSE StartsWith(Strip(parse_lines[parse_idx]), s_Total_Hours)

\* one iteration of `for line in lines[schedule_start:]`
ParseLine ==
    /\ pc = "parse_loop"
    /\ ~LoopEnds
    /\ LET line == Strip(parse_lines[parse_idx]) IN
       IF line = <<>>
       THEN UNCHANGED <<current_day_lines, parsed_days>>
       ELSE IF DayPatternMatches(line) /\ current_day_lines # <<>>
       THEN /\ parsed_days' = parsed_days \o _process_day_block(current_day_lines)
            /\ current_day_lines' = <<line>>
       ELSE /\ current_day_lines' = Append(current_day_lines, line)
            /\ UNCHANGED parsed_days
    /\ parse_idx' = parse_idx + 1
    /\ UNCHANGED <<parseFrame, pc, content, parse_lines, parse_result>>

\* after the loop: the last block, the final test, return or raise
ParseFinish ==
    /\ pc = "parse_loop"
    /\ LoopEnds
    /\ LET days == parsed_days \o _process_day_block(current_day_lines) IN
       /\ parsed_days' = days
       /\ parse_result' = ParseOutcome(days)
    /\ pc' = "parsed"
    /\ UNCHANGED <<parseFrame, content, parse_lines, parse_idx,
                   current_day_lines>>

NextParse == ParseStart \/ ParseLine \/ ParseFinish

SpecParse == InitParse /\ [][NextParse]_vars

\* the lines of the text as the parser splits them
TextLines == Split(Strip(content), "LF")

\* the lines from the first anchor line up to the statistics line
ScheduleLines ==
    LET first == CHOOSE i \in AnchorLines(TextLines) :
                    \A j \in AnchorLines(TextLines) : i <= j
        stops == {i \in first..Len(TextLines) :
                    StartsWith(Strip(TextLines[i]), s_Total_Hours)}
    IN  {i \in first..Len(TextLines) : \A k \in stops : i < k}

\* the anchor lines that give a day: a weekday after the date, a real date
UsableDayLines ==
    {i \in ScheduleLines :
        /\ DayPatternMatches(Strip(TextLines[i]))
        /\ DayMatch(Strip(TextLines[i])).matched
        /\ StrptimeDMY(SubSeq(Strip(TextLines[i]), 1, 10)).ok}

\* C16: parse_roster_text never returns an empty schedule: it raises on a
\* blank text, on a text with no line starting with a DD/MM/YYYY anchor and
\* on a text none of whose day blocks gives a day; what it returns holds at
\* least one day.
C16_NeverReturnsEmptySchedule ==
    /\ parse_result.returned => parse_result.dailySchedule # <<>>
    /\ pc = "parsed" =>
         IF Strip(content) = <<>>
         THEN parse_result = ParseRaised(e_Empty_roster)
         ELSE IF AnchorLines(TextLines) = {}
         THEN parse_result = ParseRaised(e_No_valid_date)
         ELSE IF UsableDayLines = {}
         THEN parse_result = ParseRaised(e_No_valid_schedule)
         ELSE /\ parse_result.returned
              /\ Len(parse_result.dailySchedule) = Cardinality(UsableDayLines)

\* a text of three lines was parsed: the block of the first anchor line
\* (31/02/2025) gave no day, the second gave the one day returned
C16_Witness ==
    /\ pc = "parsed"
    /\ Len(parse_lines) = 3
    /\ DayPatternMatches(parse_lines[1])
    /\ _process_day_block(<<parse_lines[1]>>) = <<>>
    /\ parse_result.returned
    /\ Len(parse_result.dailySchedule) = 1
    /\ parse_result.dailySchedule[1].date = [y |-> 2025, m |-> 3, d |-> 1]

(***************************************************************************)
(* SalaryConfig and _calculate_salary_components.                          *)
(* Amounts of the salary calculation are in 1/100000 EUR: base salary and  *)
(* allowance are given in 1/1000 EUR, rates and bonuses in cents, earnings *)
(* of rows in 1/1000 EUR, percentages of extra positions in tenths of a    *)
(* percent.  For the profiles of the model every product and every half    *)
(* is a whole number of 1/100000 EUR.                                      *)
(***************************************************************************)
POSITIONS ==
    [SO |-> [base_salary |-> 1192150, allowance |-> 2976210,
             sector_value |-> 2085, diaria |-> 4695, ido_value |-> 30000],
     FO |-> [base_salary |-> 1520161, allowance |-> 3795108,
             sector_value |-> 2148, diaria |-> 4695, ido_value |-> 37500],
     SFO |-> [base_salary |-> 1856640, allowance |-> 4635130,
              sector_value |-> 2148, diaria |-> 4695, ido_value |-> 46900],
     NewCPT |-> [base_salary |-> 2858480, allowance |-> 7136210,
                 sector_value |-> 3583, diaria |-> 5333, ido_value |-> 75000],
     CPT |-> [base_salary |-> 3176090, allowance |-> 7929120,
              sector_value |-> 3583, diaria |-> 5333, ido_value |-> 75000]]

EXTRA_POSITIONS ==
    ("Nessuna" :> 0) @@ ("BSP" :> 50) @@ ("TFO" :> 50) @@ ("TFO + SIM" :> 90)
    @@ ("Line trainer" :> 125) @@ ("TRI" :> 150) @@ ("TRE/TRI" :> 175)
    @@ ("ABT" :> 200)

\* soglia_settori, tenths of a sector
CONTRACTS ==
    ("Standard" :> 350) @@ ("5-4" :> 350) @@ ("FRV" :> 350)
    @@ ("50% (14-14)" :> 180) @@ ("Sesonale PPY50" :> 180) @@ ("7-21" :> 270)
    @@ ("PPY 75 Summer" :> 350) @@ ("PPY 75 Winter" :> 180) @@ ("7-7" :> 270)

\* <<threshold, rate>>: thresholds in 1/100000 EUR, -1 for float('inf'),
\* rates in percent
TAX_BRACKETS == << <<233333000, 23>>, <<416667000, 35>>, <<-1, 43>> >>

SNC_SECTOR_MULTIPLIER == 3

\* 3.5, in tenths
VACATION_PAY_MULTIPLIER == 35

\* 0.11, in percent
FRV_CONTRACT_INCREASE_RATE == 11

\* the contribution rates, in 1/100000
IVS_FONDO_VOLO == 9190

ADDITIONAL_IVS == 3590

FAP == 300

FIS == 267

CTR_TO == 167

get_total_contribution_rate == IVS_FONDO_VOLO + ADDITIONAL_IVS + FAP + FIS + CTR_TO

\* a * n / d rounded down, computed without leaving 32 bits
MulDiv(a, n, d) == (a \div d) * n + ((a % d) * n) \div d

Min(a, b) == IF a <= b THEN a ELSE b

\* utils.calculate_tax, the bracket loop from bracket i on
RECURSIVE TaxFrom(_, _, _, _)
TaxFrom(remaining_taxable, previous_threshold, brackets, i) ==
    IF i > Len(brackets) \/ remaining_taxable <= 0 THEN 0
    ELSE LET threshold == brackets[i][1]
             rate == brackets[i][2]
             bracket_amount ==
                 IF threshold = -1 THEN remaining_taxable
                 ELSE Min(remaining_taxable, threshold - previous_threshold)
         IN  MulDiv(bracket_amount, rate, 100)
             + TaxFrom(remaining_taxable - bracket_amount, threshold, brackets,
                       i + 1)

\* mutant: the whole total is taxed at the rate of the first bracket
calculate_tax_FirstRate(total, brackets) ==
    IF total <= 0 THEN 0 ELSE MulDiv(total, brackets[1][2], 100)

\* utils.calculate_tax
calculate_tax(total, brackets) ==
    IF total <= 0 THEN 0 ELSE TaxFrom(total, 0, brackets, 1)

s_sep == <<" ", "/", " ">>

\* x.unique(): the values in the order of their first appearance
RECURSIVE Unique(_)
Unique(seq) ==
    IF seq = <<>> THEN <<>>
    ELSE LET front == Unique(SubSeq(seq, 1, Len(seq) - 1))
             last == seq[Len(seq)]
         IN  IF \E i \in 1..Len(front) : front[i] = last THEN front
             ELSE Append(front, last)

\* ' / '.join(texts)
RECURSIVE JoinSep(_)
JoinSep(texts) ==
    IF texts = <<>> THEN <<>>
    ELSE IF Len(texts) = 1 THEN texts[1]
    ELSE texts[1] \o s_sep \o JoinSep(Tail(texts))

\* _create_grouped_dataframe: the dates of the groups
GroupedDates(detailed_df) == {detailed_df[i].Data : i \in 1..Len(detailed_df)}

\* _create_grouped_dataframe: the column Attivita of the group of a date
GroupedAttivita(detailed_df, date) ==
    LET rows == SelectSeq(detailed_df, LAMBDA row : row.Data = date)
    IN  JoinSep(Unique([i \in 1..Len(rows) |-> rows[i].Attivita]))

\* the sum of the earnings of the rows i.. whose index is in keep
RECURSIVE SumEarnings(_, _, _)
SumEarnings(earnings, keep, i) ==
    IF i > Len(earnings) THEN 0
    ELSE (IF i \in keep THEN earnings[i] ELSE 0)
         + SumEarnings(earnings, keep, i + 1)

\* sum(b.amount for b in ido_bonuses), cents
RECURSIVE TotalIdoBonus(_)
TotalIdoBonus(ido_bonuses) ==
    IF ido_bonuses = <<>> THEN 0
    ELSE ido_bonuses[1].amount + TotalIdoBonus(Tail(ido_bonuses))

\* mutant: the FRV bonus is paid under every contract
FrvBonus_AnyContract(contract, base_salary, allowance) ==
    (base_salary + allowance) * FRV_CONTRACT_INCREASE_RATE

\* frv_bonus
FrvBonus(contract, base_salary, allowance) ==
    IF contract = "FRV"
    THEN (base_salary + allowance) * FRV_CONTRACT_INCREASE_RATE
    ELSE 0

\* mutant: the allowance enters the contribution base in full
ContributionBase_FullAllowance(c) ==
    c.final_base + c.final_allowance + (c.total_sector_earnings \div 2)
    + (c.frv_bonus \div 2) + c.vacation_compensation + c.night_stop_bonus
    + c.total_ido_bonus + c.snc_compensation

\* contribution_base, of the components c
ContributionBase(c) ==
    c.final_base + (c.final_allowance \div 2) + (c.total_sector_earnings \div 2)
    + (c.frv_bonus \div 2) + c.vacation_compensation + c.night_stop_bonus
    + c.total_ido_bonus + c.snc_compensation

\* mutant: a Standby activity counts as a working day as well
WorkingDayWords_WithStandby ==
    {s_Flight, s_Positioning, s_Training, s_Rest_Day, s_Standby}

\* the alternatives of "Flight|Positioning|Training|Rest Day"
WorkingDayWords == {s_Flight, s_Positioning, s_Training, s_Rest_Day}

\* _calculate_salary_components; pay is the entry of POSITIONS, scans what
\* the scans returned: night_stop and total_ido (cents) and midnight =
\* [days, dates]
_calculate_salary_components(detailed_df, earnings, profile, pay, scans) ==
    LET base_salary == pay.base_salary
        allowance == pay.allowance
        sv == pay.sector_value
        night_stop == scans.night_stop
        total_ido == scans.total_ido
        midnight == scans.midnight
        extra_percentage == EXTRA_POSITIONS[profile.extra_position]
        final_base == base_salary * 100 + (base_salary * extra_percentage) \div 10
        final_allowance == allowance * 100 + (allowance * extra_percentage) \div 10
        operational_earnings ==
            100 * SumEarnings(earnings,
                              {i \in 1..Len(detailed_df) :
                                  /\ ~detailed_df[i].IsPositioning
                                  /\ detailed_df[i].Attivita = s_Flight}, 1)
        positioning_earnings ==
            100 * SumEarnings(earnings,
                              {i \in 1..Len(detailed_df) :
                                  detailed_df[i].IsPositioning}, 1)
        total_sector_earnings == operational_earnings + positioning_earnings
        frv_bonus == FrvBonus(profile.contract_type, base_salary, allowance)
        snc_compensation == profile.snc_units * SNC_SECTOR_MULTIPLIER * 100000
        vacation_days ==
            Cardinality({date \in GroupedDates(detailed_df) :
                            Contains(GroupedAttivita(detailed_df, date), s_Leave)})
        vacation_compensation == vacation_days * VACATION_PAY_MULTIPLIER * sv * 100
        nsb == night_stop * 1000
        total_ido_bonus == total_ido * 1000
        gross_total == final_base + final_allowance + total_sector_earnings
                       + frv_bonus + vacation_compensation + snc_compensation
                       + nsb + total_ido_bonus
        contribution_base ==
            ContributionBase(
                [final_base |-> final_base, final_allowance |-> final_allowance,
                 total_sector_earnings |-> total_sector_earnings,
                 frv_bonus |-> frv_bonus,
                 vacation_compensation |-> vacation_compensation,
                 night_stop_bonus |-> nsb, total_ido_bonus |-> total_ido_bonus,
                 snc_compensation |-> snc_compensation])
        social_contributions ==
            MulDiv(contribution_base, get_total_contribution_rate, 100000)
        taxable_income == contribution_base - social_contributions
        estimated_tax == calculate_tax(taxable_income, TAX_BRACKETS)
        base_working_days ==
            Cardinality({date \in GroupedDates(detailed_df) :
                \E word \in WorkingDayWords :
                    Contains(GroupedAttivita(detailed_df, date), word)})
        working_days == base_working_days + midnight.days
        net_estimated == taxable_income - estimated_tax + (final_allowance \div 2)
                         + (total_sector_earnings \div 2) + (frv_bonus \div 2)
    IN  [computed |-> TRUE,
         gross_total |-> gross_total,
         net_estimated |-> net_estimated,
         operational_sectors_earnings |-> operational_earnings,
         positioning_earnings |-> positioning_earnings,
         frv_bonus |-> frv_bonus,
         snc_compensation |-> snc_compensation,
         vacation_compensation |-> vacation_compensation,
         vacation_days |-> vacation_days,
         taxable_income |-> taxable_income,
         contribution_base |-> contribution_base,
         estimated_tax |-> estimated_tax,
         social_contributions |-> social_contributions,
         working_days |-> working_days,
         base_working_days |-> base_working_days,
         midnight_standby_days |-> midnight.days,
         midnight_standby_dates |-> midnight.dates]

(***************************************************************************)
(* Specification SpecSalary: calculate_salary from the day loop to the     *)
(* SalaryCalculation, for rosters of up to MaxSalaryDays days from         *)
(* 30 January 2025 on and a handful of profiles.                           *)
(***************************************************************************)
MaxSalaryDays == 3

s_EJU9001 == <<"E", "J", "U", "9", "0", "0", "1">>

SalaryLeg(o, d, pos, takeoff, landing) ==
    [flightNumber |-> IF pos THEN s_EJU9001 ELSE s_EJU2551, origin |-> o,
     destination |-> d, isPositioning |-> pos, takeOffTime |-> takeoff,
     landingTime |-> landing]

SalaryDuties ==
    { [type |-> s_Flight,
       legs |-> <<SalaryLeg("MXP", "FCO", FALSE, t_2200, t_2350)>>],
      [type |-> s_Flight,
       legs |-> <<SalaryLeg("FCO", "LPA", FALSE, t_1900, t_0200)>>],
      [type |-> s_Flight,
       legs |-> <<SalaryLeg("LPA", "MXP", TRUE, t_1000, t_1115_q)>>],
      [type |-> s_Standby, description |-> s_MXP_Standby, legs |-> <<>>],
      [type |-> s_Day_Off, description |-> s_Guaranteed_Day_Off, legs |-> <<>>],
      [type |-> s_Leave, description |-> s_Annual_leave, legs |-> <<>>],
      [type |-> s_Rest_Day, description |-> s_Rest_Day, legs |-> <<>>],
      [type |-> s_Training, description |-> s_Simulator, legs |-> <<>>],
      [type |-> s_Airport_Duty, description |-> s_Airport_Duty,
       legs |-> <<>>, airport_duty_hours |-> 360, was_called |-> FALSE] }

SalarySchedule(ds) ==
    [i \in 1..Len(ds) |-> [date |-> IdoDate(i, FALSE), duty |-> ds[i]]]

Profile(pos, extra, contract, snc, month, home) ==
    [position |-> pos, extra_position |-> extra, contract_type |-> contract,
     snc_units |-> snc, payment_month |-> month, home_base |-> home]

SalaryProfiles ==
    { Profile("SO", "BSP", "FRV", 1, 0, "MXP"),
      Profile("SFO", "ABT", "FRV", 2, 2, "FCO"),
      Profile("SO", "Nessuna", "Standard", 0, 3, "MXP"),
      Profile("SFO", "Nessuna", "Standard", 0, 1, "MXP"),
      Profile("SO", "ABT", "Standard", 3, 2, "MXP") }

\* the profile the calculation was called with
profile_ ==
    Profile(position, extra_position, contract_type, snc_units, payment_month,
            home_base)

InitSalary ==
    /\ svc = "up"
    /\ coordinates = TestCoordinates
    /\ csv = TestCsv
    /\ lastLookup = [code |-> "", raised |-> "", value |-> <<>>]
    /\ raisedCode = ""
    /\ added = EmptyDirectory
    /\ persisted0 = TestCoordinates
    /\ attempts = 0
    /\ \E n \in 0..MaxSalaryDays : \E ds \in [1..n -> SalaryDuties] :
          dailySchedule = SalarySchedule(ds)
    /\ \E p \in SalaryProfiles :
          /\ position = p.position
          /\ extra_position = p.extra_position
          /\ contract_type = p.contract_type
          /\ snc_units = p.snc_units
          /\ payment_month = p.payment_month
          /\ home_base = p.home_base
          /\ sector_value = POSITIONS[p.position].sector_value
          /\ ido_value = POSITIONS[p.position].ido_value
          /\ sector_threshold = CONTRACTS[p.contract_type]
    /\ pc = "call"
    /\ dayIdx = 1
    /\ schedule_list = <<>>
    /\ rowIdx = 0
    /\ operational_sectors_prev = 0
    /\ guadagno = <<>>
    /\ idoIdx = 1
    /\ bonuses = <<>>
    /\ scanIdx = 1
    /\ night_stop_bonus = 0
    /\ extra_days = {}
    /\ midnight_days = 0
    /\ midnight_standby_dates = {}
    /\ SalaryIdle
    /\ SectorIdle
    /\ TaxIdle
    /\ ParseIdle

\* _calculate_earnings has returned: _calculate_ido_bonuses is entered
StartIdoBonuses ==
    /\ pc = "done"
    /\ pc' = "ido"
    /\ idoIdx' = 1
    /\ bonuses' = <<>>
    /\ UNCHANGED <<airVars, dailySchedule, sector_value, sector_threshold,
                   calcLocals, ido_value, laterVars>>

\* the rest of _calculate_salary_components, and the return of
\* calculate_salary
ReturnSalary ==
    /\ pc = "midnight_done"
    /\ pc' = "salary_done"
    /\ salary_calc' =
          _calculate_salary_components(
              schedule_list, guadagno, profile_, POSITIONS[position],
              [night_stop |-> night_stop_bonus,
               total_ido |-> TotalIdoBonus(bonuses),
               midnight |-> [days |-> midnight_days,
                             dates |-> midnight_standby_dates]])
    /\ UNCHANGED <<airVars, dailySchedule, sector_value, sector_threshold,
                   calcLocals, idoVars, profileVars, scanVars, sectorVars,
                   parseVars, taxVars>>

NextSalary ==
    \/ CallCalculate \/ ProcessDay \/ ReturnEmpty \/ StartEarnings \/ EarnRow
    \/ EarnReturn
    \/ StartIdoBonuses \/ IdoPair \/ IdoReturn
    \/ StartNightStop \/ NightStopStep \/ NightStopReturn
    \/ StartExtraDiaria \/ DiariaStep \/ DiariaReturn
    \/ StartMidnight \/ MidnightStep \/ MidnightReturn
    \/ ReturnSalary

SpecSalary == InitSalary /\ [][NextSalary]_vars

(***************************************************************************)
(* Claims on calculate_salary (SpecSalary)                                 *)
(***************************************************************************)
\* _calculate_ido_bonuses on a schedule, from pair i on
RECURSIVE IdoBonusesOf(_, _, _)
IdoBonusesOf(schedule, unit, i) ==
    IF i > Len(schedule) - 1 THEN <<>>
    ELSE PairBonuses(schedule[i], schedule[i + 1], unit)
         \o IdoBonusesOf(schedule, unit, i + 1)

\* _calculate_night_stop_bonus on a schedule, from pair i on
RECURSIVE NightStopOf(_, _, _, _)
NightStopOf(schedule, home, rate, i) ==
    IF i > Len(schedule) - 1 THEN 0
    ELSE NightStopPair(schedule[i], schedule[i + 1], home, rate)
         + NightStopOf(schedule, home, rate, i + 1)

\* _find_extra_diaria_days on a schedule
ExtraDiariaOf(schedule) ==
    UNION {DiariaPair(schedule[i], schedule[i + 1]) :
             i \in 1..(Len(schedule) - 1)}

\* the dates of _count_midnight_standby_days on a schedule
MidnightDatesOf(schedule) ==
    UNION {MidnightPair(schedule[i], schedule[i + 1]) :
             i \in 1..(Len(schedule) - 1)}

\* the days of the roster month
RosterMonthDays ==
    SelectSeq(dailySchedule, LAMBDA day : ~DaySkipped(day, payment_month))

\* C15: with a payment month set, only the days of the roster month are
\* processed: the detailed entries, the rest-violation bonuses, the
\* night-stop bonus, the extra-diaria dates and the midnight-standby count
\* are those of the days of the roster month alone.
C15_OnlyRosterMonthContributes ==
    (pc = "salary_done" /\ payment_month # 0) =>
        /\ \A i \in 1..Len(schedule_list) :
              schedule_list[i].Data.m = RosterMonth(payment_month)
        /\ bonuses = IdoBonusesOf(RosterMonthDays, ido_value, 1)
        /\ night_stop_bonus
           = NightStopOf(RosterMonthDays, home_base, sector_value, 1)
        /\ extra_days = ExtraDiariaOf(RosterMonthDays)
        /\ salary_calc.midnight_standby_days
           = Cardinality(MidnightDatesOf(RosterMonthDays))

\* an amount of 1/1000 EUR scaled by (1 + extra-position percentage / 100),
\* in 1/100000 EUR
Scaled(amount) == MulDiv(amount, 1000 + EXTRA_POSITIONS[extra_position], 10)

\* the earnings, in 1/100000 EUR, of the rows whose label is one of labels
LabelEarnings(labels) ==
    100 * SumEarnings(guadagno,
                      {i \in 1..Len(schedule_list) :
                          schedule_list[i].Attivita \in labels}, 1)

\* the dates of the rows whose label starts with one of the words
DatesWith(words) ==
    {schedule_list[i].Data : i \in {j \in 1..Len(schedule_list) :
        \E word \in words : StartsWith(schedule_list[j].Attivita, word)}}

\* C18: gross_total is the sum of base salary and allowance each scaled by
\* (1 + extra percentage / 100), the operational and positioning earnings,
\* the FRV uplift of 0.11 * (base + allowance) under an FRV contract, 3 per
\* SNC unit, 3.5 * sector_value per distinct Leave date, the night-stop
\* bonus and the total rest-violation bonus.
C18_GrossTotal ==
    pc = "salary_done" =>
        salary_calc.gross_total
        = Scaled(POSITIONS[position].base_salary)
          + Scaled(POSITIONS[position].allowance)
          + LabelEarnings({s_Flight}) + LabelEarnings({s_Positioning})
          + (IF contract_type = "FRV"
             THEN 11 * (POSITIONS[position].base_salary
                        + POSITIONS[position].allowance)
             ELSE 0)
          + snc_units * 300000
          + Cardinality(DatesWith({s_Leave})) * 35 * sector_value * 100
          + night_stop_bonus * 1000
          + TotalIdoBonus(bonuses) * 1000

\* a salary under an FRV contract with an extra position, an SNC unit, a
\* Leave day, a night stop, a rest-violation bonus and sector earnings
C18_Witness ==
    /\ pc = "salary_done"
    /\ contract_type = "FRV"
    /\ EXTRA_POSITIONS[extra_position] > 0
    /\ snc_units > 0
    /\ payment_month = 0
    /\ salary_calc.vacation_days = 1
    /\ night_stop_bonus > 0
    /\ TotalIdoBonus(bonuses) > 0
    /\ salary_calc.operational_sectors_earnings > 0
    /\ salary_calc.frv_bonus > 0

\* C19: net_estimated is taxable income minus tax plus half the scaled
\* allowance, half the sector earnings and half the FRV bonus; taxable
\* income is the contribution base minus the social contributions; the
\* contribution base counts allowance, sector earnings and FRV bonus at one
\* half and the rest in full; hence net = gross - social - tax.
C19_NetEstimated ==
    pc = "salary_done" =>
        LET c == salary_calc
            halved == Scaled(POSITIONS[position].allowance)
                      + c.operational_sectors_earnings + c.positioning_earnings
                      + c.frv_bonus
            full == Scaled(POSITIONS[position].base_salary)
                    + c.vacation_compensation + night_stop_bonus * 1000
                    + TotalIdoBonus(bonuses) * 1000 + c.snc_compensation
        IN  /\ 2 * (c.contribution_base - full) = halved
            /\ c.taxable_income = c.contribution_base - c.social_contributions
            /\ 2 * (c.net_estimated - c.taxable_income + c.estimated_tax) = halved
            /\ c.net_estimated
               = c.gross_total - c.social_contributions - c.estimated_tax

\* a salary under an FRV contract taxed in the highest bracket, with sector
\* earnings
C19_Witness ==
    /\ pc = "salary_done"
    /\ salary_calc.frv_bonus > 0
    /\ salary_calc.operational_sectors_earnings > 0
    /\ salary_calc.taxable_income > TAX_BRACKETS[2][1]
    /\ salary_calc.estimated_tax > 0
    /\ salary_calc.social_contributions > 0

HasStandby ==
    \E i \in 1..Len(dailySchedule) : dailySchedule[i].duty.type = s_Standby

\* C21: calculate_salary blocks the payment when the home base is MXP and
\* the roster holds a standby code: gross_total, net_estimated and
\* operational_sectors_earnings are then all 0.
C21_MxpStandbyBlocked ==
    (pc = "salary_done" /\ home_base = "MXP" /\ HasStandby) =>
        /\ salary_calc.gross_total = 0
        /\ salary_calc.net_estimated = 0
        /\ salary_calc.operational_sectors_earnings = 0

\* C22: the operational and the positioning total together are the sum of
\* the earnings column: every row with earnings, Training and Airport Duty
\* rows included, is counted in exactly one of the two.
C22_TotalsPartitionEarnings ==
    pc = "salary_done" =>
        salary_calc.operational_sectors_earnings
        + salary_calc.positioning_earnings
        = 100 * SumEarnings(guadagno, 1..Len(schedule_list), 1)

(***************************************************************************)
(* Specification SpecRetry: one run of the `while True` loop of            *)
(* _calculate_salary in one process.  The application is single-threaded   *)
(* and every step of the loop is either a statement of the program, which  *)
(* the interpreter executes, or the modal dialog, which the user closes by *)
(* supplying coordinates or by cancelling: a step that can be taken is     *)
(* eventually taken once the service is up.                               *)
(***************************************************************************)
\* a step of the loop, of the calculation in it or of the dialog
LoopStep ==
    CallCalculate \/ ProcessDay \/ RaiseMissingAirport \/ DialogSupply
    \/ DialogCancel \/ ReturnEmpty \/ StartEarnings \/ EarnRow \/ EarnReturn

NextRetry == StartService \/ LoopStep

SpecRetry == InitAir /\ [][NextRetry]_vars /\ WF_vars(LoopStep)

\* the airport codes of a sequence of legs
LegCodes(legs) ==
    {legs[j].origin : j \in 1..Len(legs)}
    \cup {legs[j].destination : j \in 1..Len(legs)}

\* the airport codes of the roster
RosterCodes ==
    UNION {LegCodes(dailySchedule[i].duty.legs) : i \in 1..Len(dailySchedule)}

\* the roster codes the directory did not resolve when the loop was entered:
\* those it does not resolve now and those add_airport has added since
UnresolvedAtEntry ==
    {c \in RosterCodes : c \notin DOMAIN coordinates \/ c \in DOMAIN added}

\* the loop has ended: with a result, or without one after a cancel
LoopEnded == pc \in {"done", "no_data", "cancelled"}

C24_DefaultDirectoryLoaded ==
    [][(svc = "off" /\ ~csv.exists /\ svc' = "up")
       => (/\ csv' = DefaultCsv
           /\ coordinates' = Resolvable(csv')
           /\ \A c \in {"MXP", "FCO", "BGY", "LIN"} :
                 get_coordinates(coordinates', c).raised = "")]_vars

(***************************************************************************)
(* Specification SpecAdd: direct calls of add_airport, each of which may   *)
(* find that the file cannot be opened for appending.                      *)
(***************************************************************************)
MaxAdds == 2

\* codes passed to add_airport: two new ones and one the default file holds
AddCodes == {"XXA", "XXB", "MXP"}

\* AirportService.add_airport when open(csv_path, 'a') fails in
\* _save_to_csv: the assignment to self.coordinates has been made, nothing
\* is written, and IOError leaves add_airport
add_airport_append_fails(directory, file, iata_code, lat, lon) ==
    [coordinates |-> add_airport(directory, file, iata_code, lat, lon).coordinates,
     csv |-> file]

InitAdd ==
    /\ svc = "off"
    /\ coordinates = EmptyDirectory
    /\ csv \in {NoFile, DefaultCsv, EuCsv}
    /\ lastLookup = [code |-> "", raised |-> "", value |-> <<>>]
    /\ raisedCode = ""
    /\ added = EmptyDirectory
    /\ persisted0 = EmptyDirectory
    /\ attempts = 0
    /\ dailySchedule = <<>>
    /\ sector_value = FOSectorValue
    /\ sector_threshold = StandardThreshold
    /\ pc = "call"
    /\ dayIdx = 1
    /\ schedule_list = <<>>
    /\ rowIdx = 0
    /\ operational_sectors_prev = 0
    /\ guadagno = <<>>
    /\ ido_value = FOIdoValue
    /\ idoIdx = 1
    /\ bonuses = <<>>
    /\ LaterIdle

\* add_airport(code, lat, lon) returns
AddAirport ==
    /\ svc = "up"
    /\ pc = "call"
    /\ attempts < MaxAdds
    /\ \E code \in AddCodes : \E ll \in DialogInputs :
        LET r == add_airport(coordinates, csv, code, ll[1], ll[2]) IN
        /\ coordinates' = r.coordinates
        /\ csv' = r.csv
        /\ added' = [c \in DOMAIN added \cup {code} |->
                        IF c = code THEN ll ELSE added[c]]
        /\ lastLookup' = [code |-> code, raised |-> "", value |-> ll]
    /\ attempts' = attempts + 1
    /\ UNCHANGED <<svc, raisedCode, persisted0, earnVars, idoVars, laterVars>>

\* add_airport(code, lat, lon) raises IOError: the append failed
AddAirportFails ==
    /\ svc = "up"
    /\ pc = "call"
    /\ attempts < MaxAdds
    /\ \E code \in AddCodes : \E ll \in DialogInputs :
        LET r == add_airport_append_fails(coordinates, csv, code, ll[1], ll[2]) IN
        /\ coordinates' = r.coordinates
        /\ csv' = r.csv
        /\ lastLookup' = [code |-> code, raised |-> "IOError", value |-> ll]
    /\ attempts' = attempts + 1
    /\ pc' = "raised"
    /\ UNCHANGED <<svc, raisedCode, added, persisted0, dailySchedule,
                   sector_value, sector_threshold, calcLocals, idoVars,
                   laterVars>>

NextAdd == StartService \/ AddAirport \/ AddAirportFails

SpecAdd == InitAdd /\ [][NextAdd]_vars

\* C25: when the append to the file fails, add_airport raises and leaves
\* the in-memory directory as it was: a code that was not in the directory
\* before the call is not in it afterwards.
C25_FailedAppendChangesNothing ==
    [][(pc = "call" /\ pc' = "raised")
       => (/\ lastLookup'.raised = "IOError"
           /\ csv' = csv
           /\ coordinates' = coordinates)]_vars

\* C26: every date of the extra-diaria set returned by calculate_salary is
\* counted in working_days: it is a midnight-standby date or the date of a
\* base working day.
C26_ExtraDiariaInWorkingDays ==
    pc = "salary_done" =>
        extra_days \subseteq
            (salary_calc.midnight_standby_dates
             \cup DatesWith({s_Flight, s_Positioning, s_Training, s_Rest_Day}))

(***************************************************************************)
(* Specification SpecDay: _process_day_block on one block of up to         *)
(* MaxBlockLines lines, followed for a non-flight day by the iteration of  *)
(* the day loop of _process_roster_data that appends its row; and direct   *)
(* calls of _calculate_sim_sectors.                                        *)
(***************************************************************************)
MaxBlockLines == 2

\* first lines of a block: the date, the weekday and what follows them
FirstLines ==
    { <<"0", "1", "/", "0", "3", "/", "2", "0", "2", "5", " ", "S", "a", "t">>,
      <<"0", "1", "/", "0", "3", "/", "2", "0", "2", "5", " ", "S", "a", "t", " ", "P", "S", "B", "L">>,
      <<"0", "1", "/", "0", "3", "/", "2", "0", "2", "5", " ", "S", "a", "t", " ", "P", "S", "B", "E">>,
      <<"0", "1", "/", "0", "3", "/", "2", "0", "2", "5", " ", "S", "a", "t", " ", "E", "S", "B", "Y">>,
      <<"0", "1", "/", "0", "3", "/", "2", "0", "2", "5", " ", "S", "a", "t", " ", "A", "D", "T", "Y">>,
      <<"0", "1", "/", "0", "3", "/", "2", "0", "2", "5", " ", "S", "a", "t", " ", "C", "S", "B", "E">>,
      <<"0", "1", "/", "0", "3", "/", "2", "0", "2", "5", " ", "S", "a", "t", " ", "C", "S", "B", "L">>,
      <<"0", "1", "/", "0", "3", "/", "2", "0", "2", "5", " ", "S", "a", "t", " ", "G", "D", "O">>,
      <<"0", "1", "/", "0", "3", "/", "2", "0", "2", "5", " ", "S", "a", "t", " ", "D", "/", "O">>,
      <<"0", "1", "/", "0", "3", "/", "2", "0", "2", "5", " ", "S", "a", "t", " ", "L", "V", "E">>,
      <<"0", "1", "/", "0", "3", "/", "2", "0", "2", "5", " ", "S", "a", "t", " ", "S", "I", "M">>,
      <<"0", "1", "/", "0", "3", "/", "2", "0", "2", "5", " ", "S", "a", "t", " ", "M", "2", "D", "1">>,
      <<"0", "1", "/", "0", "3", "/", "2", "0", "2", "5", " ", "S", "a", "t", " ", "L", "S", "B", "Y">>,
      <<"0", "1", "/", "0", "3", "/", "2", "0", "2", "5", " ", "S", "a", "t", " ", "R", "E", "S", "T">>,
      <<"0", "1", "/", "0", "3", "/", "2", "0", "2", "5", " ", "S", "a", "t", " ", "W", "D", "/", "O">>,
      <<"0", "1", "/", "0", "3", "/", "2", "0", "2", "5", " ", "S", "a", "t", " ", "S", "I", "M", "I">>,
      <<"0", "1", "/", "0", "3", "/", "2", "0", "2", "5", " ", "S", "a", "t", " ", "G", "/", "S">>,
      <<"0", "1", "/", "0", "3", "/", "2", "0", "2", "5", " ", "S", "a", "t", " ", "L", "T", "G", "I">>,
      <<"0", "1", "/", "0", "3", "/", "2", "0", "2", "5", " ", "S", "a", "t", " ", "W", "/", "D", "O">>,
      <<"0", "1", "/", "0", "3", "/", "2", "0", "2", "5", " ", "S", "a", "t", " ", "X", "Y", "Z">>,
      <<"0", "1", "/", "0", "3", "/", "2", "0", "2", "5", " ", "S", "a", "t", " ", "E", "J", "U", "2", "5", "5", "1", " ", "M", "X", "P", " ", "-", " ", "F", "C", "O", " ", "0", "6", ":", "0", "0", " ", "-", " ", "0", "7", ":", "1", "0", " ", "E", "J", "U", "2", "5", "5", "2", " ", "F", "C", "O", " ", "-", " ", "M", "X", "P">>,
      <<"0", "1", "/", "0", "3", "/", "2", "0", "2", "5", " ", "S", "a", "t", " ", "E", "S", "B", "Y", " ", "E", "J", "U", "2", "5", "5", "3", " ", "[", "3", "2", "0", "]", " ", "*", " ", "M", "X", "P", " ", "-", " ", "L", "P", "A", " ", "A", "1", "0", ":", "0", "0", " ", "-", " ", "A", "1", "4", ":", "0", "5">>,
      <<"0", "1", "/", "0", "3", "/", "2", "0", "2", "5", " ", "S", "a", "t", " ", "S", "I", "M", " ", "0", "6", "0", "0", " ", "1", "4", "0", "0">>,
      <<"0", "1", "/", "0", "3", "/", "2", "0", "2", "5", " ", "S", "a", "t", " ", "A", "D", "T", "Y", " ", "0", "6", ":", "0", "0", " ", "-", " ", "0", "9", ":", "0", "0">> }

\* further lines of a block
MoreLines ==
    { <<"E", "J", "U", "2", "5", "5", "4", " ", "L", "P", "A", " ", "-", " ", "M", "X", "P", " ", "1", "5", ":", "0", "0", " ", "-", " ", "A", "1", "9", ":", "1", "0", " ", "T", "A", "X", "I", "7", "1", " ", "M", "X", "P", " ", "-", " ", "X", "W", "T", " ", "1", "9", ":", "3", "0", " ", "-", " ", "2", "0", ":", "0", "0", "?">>,
      <<"F", "O", " ", "E", "J", "U", "9", " ", "M", "X", "P", " ", "-", " ", "F", "C", "O", " ", "0", "1", ":", "0", "0", " ", "-", " ", "0", "2", ":", "0", "0">>,
      <<"G", "/", "S", " ", "L", "T", "G", "I", " ", "G", "/", "S">>,
      <<"1", "2", ":", "0", "0", " ", "-", " ", "1", "3", ":", "0", "0", " ", "1", "4", ":", "0", "0", "-", "1", "5", ":", "0", "0", " ", "E", "J", "U", "2", "5", "5", "5", " ", "F", "C", "O", " ", "-", " ", "B", "G", "Y">> }

\* descriptions of the duties _calculate_sim_sectors is called with
SimDescriptions ==
    { <<"S", "i", "m", "u", "l", "a", "t", "o", "r">>,
      <<"S", "i", "m", "u", "l", "a", "t", "o", "r", " ", "i", "n", "s", "t", "r", "u", "c", "t", "o", "r">>,
      <<"S", "I", "M", " ", "t", "r", "a", "i", "n", "e", "e">>,
      <<"S", "I", "M", " ", "s", "u", "p", "p", "o", "r", "t", " ", "f", "o", "r", " ", "t", "h", "e", " ", "I", "n", "s", "t", "r", "u", "c", "t", "o", "r">>,
      <<"S", "I", "M", " ", "L", "u", "c", "a", " ", "F", "u", "s", "a", "r", "i">>,
      <<"S", "i", "m", "u", "l", "a", "t", "o", "r", " ", "s", "t", "u", "d", "e", "n", "t">>,
      <<"S", "I", "M", " ", "T", "r", "a", "i", "n", "i", "n", "g">>,
      <<"S", "I", "M", " ", "t", "e", "a", "c", "h", "i", "n", "g">>,
      <<"S", "I", "M", " ", "i", "n", "s", "t", "r">> }

InitDay ==
    /\ CalcIdle
    /\ ScanIdle
    /\ ProfileIdle
    /\ SalaryIdle
    /\ SectorIdle
    /\ TaxIdle
    /\ content = <<>>
    /\ parse_lines = <<>>
    /\ parse_idx = 1
    /\ parsed_days = <<>>
    /\ parse_result = NotParsed
    /\ \/ /\ pc = "block"
          /\ \E f \in FirstLines : \E n \in 0..(MaxBlockLines - 1) :
                \E ls \in [1..n -> MoreLines] : current_day_lines = <<f>> \o ls
       \/ /\ pc = "sim"
          /\ \E d \in SimDescriptions :
                current_day_lines = <<d>>

dayFrame == <<airVars, dailySchedule, sector_value, sector_threshold, dayIdx,
              rowIdx, operational_sectors_prev, guadagno, idoVars,
              profileVars, scanVars, salaryVars, arg_distance, content,
              parse_lines, parse_idx, current_day_lines, parse_result,
              taxVars>>

\* _process_day_block(current_day_lines)
ProcessDayBlock ==
    /\ pc = "block"
    /\ parsed_days' = _process_day_block(current_day_lines)
    /\ pc' = "block_done"
    /\ UNCHANGED <<dayFrame, schedule_list, ret_sectors>>

\* the iteration of the day loop for the day of the block, when it is not a
\* Flight day: its row is appended
NonFlightDayRow ==
    /\ pc = "block_done"
    /\ parsed_days # <<>>
    /\ Get(parsed_days[1].duty, "type", s_NA) # s_Flight
    /\ schedule_list' = schedule_list \o DayRows(parsed_days[1], coordinates).rows
    /\ pc' = "row_done"
    /\ UNCHANGED <<dayFrame, parsed_days, ret_sectors>>

\* _calculate_sim_sectors(duty, date) for a Training duty with the
\* description current_day_lines[1]
SimSectors ==
    /\ pc = "sim"
    /\ ret_sectors' =
          _calculate_sim_sectors([type |-> s_Training,
                                  description |-> current_day_lines[1]])
    /\ pc' = "sim_done"
    /\ UNCHANGED <<dayFrame, schedule_list, parsed_days>>

NextDay == ProcessDayBlock \/ NonFlightDayRow \/ SimSectors

SpecDay == InitDay /\ [][NextDay]_vars

\* the number of legs a line gives
LegCount(line) == IF IsCrewLine(line) THEN 0 ELSE Len(LegFindall(line, 1))

\* the number of legs the lines before line k give
RECURSIVE LegsBefore(_, _)
LegsBefore(lines, k) ==
    IF k = 1 THEN 0 ELSE LegsBefore(lines, k - 1) + LegCount(lines[k - 1])

\* C27: within each non-crew line the i-th route match is paired with the
\* i-th time-range match of that line: leg i takes its take-off and landing
\* times from time match i, and a leg whose index is beyond the time matches
\* has no take-off time, no landing time and hasActualTimes = false; the
\* legs of the day are in line order, then match order.
C27_LegsPairedWithTimes ==
    (pc = "block_done" /\ parsed_days # <<>>) =>
        LET lines == current_day_lines
            legs == parsed_days[1].duty.legs
        IN  /\ Len(legs) = LegsBefore(lines, Len(lines) + 1)
            /\ \A k \in 1..Len(lines) : \A i \in 1..LegCount(lines[k]) :
                  LET leg == legs[LegsBefore(lines, k) + i]
                      route == LegFindall(lines[k], 1)[i]
                      times == TimeFindall(lines[k], 1)
                  IN  /\ leg.flightNumber = route.flightNumber
                      /\ leg.origin = route.origin
                      /\ leg.destination = route.destination
                      /\ IF i <= Len(times)
                         THEN /\ leg.takeOffTime = times[i].takeOffTime
                              /\ leg.landingTime = times[i].landingTime
                         ELSE /\ "takeOffTime" \notin DOMAIN leg
                              /\ "landingTime" \notin DOMAIN leg
                              /\ ~leg.hasActualTimes

\* a block of two lines gave four legs: the second leg of the first line
\* has no times, the two legs of the second line have the two time ranges
\* of that line
C27_Witness ==
    /\ pc = "block_done"
    /\ Len(current_day_lines) = 2
    /\ parsed_days # <<>>
    /\ Len(parsed_days[1].duty.legs) = 4
    /\ "takeOffTime" \notin DOMAIN parsed_days[1].duty.legs[2]
    /\ parsed_days[1].duty.legs[3].landingTime = <<"1", "9", ":", "1", "0">>
    /\ parsed_days[1].duty.legs[3].hasActualTimes
    /\ parsed_days[1].duty.legs[4].takeOffTime = <<"1", "9", ":", "3", "0">>

\* the four lookup tables of _process_non_flight_duty as one table
LookupTables ==
    standby_codes @@ day_off_codes @@ rest_day_codes @@ training_codes

\* the word that follows the date and the weekday on the first line of a day
FirstLineCode(line) == SubSeq(line, 16, RunEndNot(line, 16, Whitespace) - 1)

\* C28: on a non-flight day every duty code of the lookup tables (standby,
\* day-off with W/DO and WD/O, rest-day, leave and training codes) standing
\* as the duty code of the first line gives the (type, description) pair of
\* its table, and type 'Unknown' is given only for codes absent from the
\* tables.
C28_TableCodesMapped ==
    (pc = "block_done" /\ parsed_days # <<>>
     /\ ~IsFlightDay(JoinLines(current_day_lines))) =>
        LET code == FirstLineCode(current_day_lines[1])
            duty == parsed_days[1].duty
        IN  /\ code \in DOMAIN LookupTables =>
                  /\ duty.type = LookupTables[code][1]
                  /\ "description" \in DOMAIN duty
                  /\ duty.description = LookupTables[code][2]
            /\ duty.type = s_Unknown => code \notin DOMAIN LookupTables

\* the description holds one of the keywords, whatever the case of its
\* letters
HasKeyword(description, keywords) ==
    \E k \in keywords : Contains(Lower(description), k)

\* C29: _calculate_sim_sectors gives 4.0 for a description with an
\* instructor keyword, 0.0 for one with a trainee or support keyword and no
\* instructor keyword, 4.0 for one with neither; and a Training day the
\* parser produces is given 4.0 sectors when its code is SIM, SIMI, G/S or
\* LTGI and 0 when it is M2D1.
C29_SimAndTrainingSectors ==
    /\ pc = "sim_done" =>
          LET description == current_day_lines[1]
              instructor == HasKeyword(description,
                               {k_instructor, k_luca_fusari, k_instr, k_teaching})
              trainee == HasKeyword(description,
                               {k_trainee, k_support, k_student, k_training})
          IN  /\ instructor => ret_sectors = 40
              /\ (trainee /\ ~instructor) => ret_sectors = 0
              /\ (~trainee /\ ~instructor) => ret_sectors = 40
    /\ (pc = "row_done" /\ parsed_days[1].duty.type = s_Training) =>
          LET code == FirstLineCode(current_day_lines[1])
              row == schedule_list[Len(schedule_list)]
          IN  /\ code \in {s_SIM, s_SIMI, s_GS, s_LTGI, s_M2D1}
              /\ Len(schedule_list) = 1
              /\ row.IsTraining
              /\ code \in {s_SIM, s_SIMI, s_GS, s_LTGI} => row.Settori = 40
              /\ code = s_M2D1 => row.Settori = 0

\* a SIMI day became a Training row 'Simulator instructor' with 4.0 sectors
C29_Witness ==
    /\ pc = "row_done"
    /\ parsed_days[1].duty.type = s_Training
    /\ parsed_days[1].duty.description = s_Simulator_instructor
    /\ FirstLineCode(current_day_lines[1]) = s_SIMI
    /\ schedule_list[1].Settori = 40

(***************************************************************************)
(* utils.calculate_tax on its own: totals around zero and around the       *)
(* thresholds, the brackets of SalaryConfig and a second list whose last   *)
(* threshold is finite and whose rates fall.  Every total is a multiple of *)
(* 1/1000 EUR, so each bracket_amount * rate is exact in 1/100000 EUR.     *)
(***************************************************************************)
MaxTaxSteps == 24

\* steps of 250 EUR
TaxTotals ==
    {k * 25000000 : k \in (-2)..MaxTaxSteps}
    \cup {-1000, 1000, 233332000, 233333000, 233334000,
          416666000, 416667000, 416668000}

FallingBrackets == << <<100000000, 40>>, <<300000000, 20>> >>

BracketLists == {TAX_BRACKETS, FallingBrackets}

InitTax ==
    /\ CalcIdle
    /\ ScanIdle
    /\ ProfileIdle
    /\ SalaryIdle
    /\ SectorIdle
    /\ ParseIdle
    /\ pc = "tax"
    /\ tax_total \in TaxTotals
    /\ tax_brackets \in BracketLists
    /\ tax_result = 0

\* `estimated_tax = calculate_tax(taxable_income, SalaryConfig.TAX_BRACKETS)`
CalculateTax ==
    /\ pc = "tax"
    /\ tax_result' = calculate_tax(tax_total, tax_brackets)
    /\ pc' = "tax_done"
    /\ UNCHANGED <<airVars, dailySchedule, sector_value, sector_threshold,
                   calcLocals, idoVars, profileVars, scanVars, salaryVars,
                   sectorVars, parseVars, tax_total, tax_brackets>>

NextTax == CalculateTax

SpecTax == InitTax /\ [][NextTax]_vars

\* the part of total lying between lo and hi, hi = -1 for no upper end
PartBetween(total, lo, hi) ==
    LET top == IF hi = -1 THEN total ELSE Min(total, hi)
    IN  IF top > lo THEN top - lo ELSE 0

\* the sum over the brackets from i on of rate times the part of total
\* between the previous threshold and the bracket's own
RECURSIVE MarginalTax(_, _, _)
MarginalTax(total, brackets, i) ==
    IF i > Len(brackets) THEN 0
    ELSE MulDiv(PartBetween(total,
                            IF i = 1 THEN 0 ELSE brackets[i - 1][1],
                            brackets[i][1]),
                brackets[i][2], 100)
         + MarginalTax(total, brackets, i + 1)

HighestRate(brackets) ==
    CHOOSE r \in {brackets[i][2] : i \in 1..Len(brackets)} :
        \A i \in 1..Len(brackets) : brackets[i][2] <= r

\* the tax returned is 0 for a total of 0 or less, else the cumulative
\* marginal tax, and no smaller total is taxed more
TaxIsMarginalAndMonotone ==
    /\ tax_total <= 0 => tax_result = 0
    /\ tax_total > 0 => tax_result = MarginalTax(tax_total, tax_brackets, 1)
    /\ \A smaller \in TaxTotals :
          smaller <= tax_total
          => calculate_tax(smaller, tax_brackets) <= tax_result

\* C30 as stated: calculate_tax returns 0 for total <= 0, else the sum over
\* the brackets in threshold order of rate_i times the part of total between
\* the previous threshold and threshold_i; the result does not decrease as
\* total grows and never exceeds total times the highest rate.
C30_TaxNeverExceedsTopRate ==
    pc = "tax_done" =>
        /\ TaxIsMarginalAndMonotone
        /\ tax_result <= MulDiv(tax_total, HighestRate(tax_brackets), 100)

\* C30 amended: as stated, with the bound by total times the highest rate
\* for totals of 0 or more only (a negative total is taxed 0, which is more
\* than a negative product).
C30_TaxMarginalAndBounded ==
    pc = "tax_done" =>
        /\ TaxIsMarginalAndMonotone
        /\ tax_total >= 0 =>
              tax_result <= MulDiv(tax_total, HighestRate(tax_brackets), 100)

\* 4500 EUR under the brackets of SalaryConfig: 2333.33 at 23 %, 1833.34 at
\* 35 % and 333.33 at 43 %
C30_Witness ==
    /\ pc = "tax_done"
    /\ tax_brackets = TAX_BRACKETS
    /\ tax_total = 450000000
    /\ tax_result = 53666590 + 64166900 + 14333190

====
